---- MODULE Spec2Model ----
(***************************************************************************)
(* Model of the news aggregator backend: feed extraction                   *)
(* (parse_single_feed, parse_all_feeds), the deduplicating persistence of  *)
(* article candidates (save_articles_to_db), semantic search               *)
(* (semantic_search, cosine_similarity) and enrichment with summaries and  *)
(* embeddings (process_new_articles).                                      *)
(***************************************************************************)
EXTENDS Integers, Sequences, FiniteSets, TLC

None == "None"

(* ------------------------------------------------------------------ *)
(* Bounds of the model                                                  *)
(* ------------------------------------------------------------------ *)
MaxBatch == 3
MaxConcBatch == 2
MaxFeedLen == 3
MaxStore == 3
MaxEnrichRows == 3

(* ------------------------------------------------------------------ *)
(* Text: a string is a sequence of one-character strings                *)
(* ------------------------------------------------------------------ *)
Rep(c, n) == [i \in 1..n |-> c]
NBSP == "nbsp"
Whitespace == {" ", "\n", "\t", NBSP}

Indexed(s) == [i \in 1..Len(s) |-> [i |-> i, c |-> s[i]]]
Chars(ix) == [k \in 1..Len(ix) |-> ix[k].c]

\* re.IGNORECASE, for the letters of the two block names
lower(c) ==
    CASE c = "S" -> "s" [] c = "C" -> "c" [] c = "R" -> "r" [] c = "I" -> "i"
      [] c = "P" -> "p" [] c = "T" -> "t" [] c = "Y" -> "y" [] c = "L" -> "l"
      [] c = "E" -> "e" [] OTHER -> c

\* w occurs in s at position i (ignoring case)
StartsAt(s, i, w) ==
    /\ i + Len(w) - 1 <= Len(s)
    /\ \A k \in 1..Len(w) : lower(s[i + k - 1]) = w[k]

\* the first position >= i where w occurs, or 0
FindFrom(s, i, w) ==
    LET Hit(e) == e.i >= i /\ StartsAt(s, e.i, w)
        hits == SelectSeq(Indexed(s), Hit)
    IN IF hits = <<>> THEN 0 ELSE hits[1].i

\* s without the positions that the spans cover
Drop(s, spans) ==
    LET Kept(e) == \A sp \in spans : e.i < sp.lo \/ e.i > sp.hi
    IN Chars(SelectSeq(Indexed(s), Kept))

\* r'<name[^>]*>.*?</name>' with DOTALL: the position after the match that
\* starts at i, or 0 when none starts there
BlockEnd(s, i, name) ==
    LET open == <<"<">> \o name
        close == <<"<", "/">> \o name \o <<">">>
        gt == IF StartsAt(s, i, open)
              THEN FindFrom(s, i + Len(open), <<">">>) ELSE 0
        cl == IF gt = 0 THEN 0 ELSE FindFrom(s, gt + 1, close)
    IN IF cl = 0 THEN 0 ELSE cl + Len(close)

\* the leftmost non-overlapping matches from position from on
RECURSIVE BlockSpans(_, _, _)
BlockSpans(s, name, from) ==
    LET Hit(e) == e.i >= from /\ BlockEnd(s, e.i, name) # 0
        hits == SelectSeq(Indexed(s), Hit)
    IN IF hits = <<>> THEN {}
       ELSE {[lo |-> hits[1].i, hi |-> BlockEnd(s, hits[1].i, name) - 1]}
            \cup BlockSpans(s, name, BlockEnd(s, hits[1].i, name))

\* re.sub(r'<name[^>]*>.*?</name>', '', text, flags=re.DOTALL | re.IGNORECASE)
remove_blocks(s, name) == Drop(s, BlockSpans(s, name, 1))

\* r'<[^>]+>': the position after the tag that starts at i, or 0
TagEnd(s, i) ==
    LET gt == IF s[i] = "<" THEN FindFrom(s, i + 1, <<">">>) ELSE 0
    IN IF gt > i + 1 THEN gt + 1 ELSE 0

RECURSIVE TagSpans(_, _)
TagSpans(s, from) ==
    LET Hit(e) == e.i >= from /\ TagEnd(s, e.i) # 0
        hits == SelectSeq(Indexed(s), Hit)
    IN IF hits = <<>> THEN {}
       ELSE {[lo |-> hits[1].i, hi |-> TagEnd(s, hits[1].i) - 1]}
            \cup TagSpans(s, TagEnd(s, hits[1].i))

\* re.sub(r'<[^>]+>', '', text)
remove_tags(s) == Drop(s, TagSpans(s, 1))

\* html.unescape, for the character references the feeds of the model use;
\* these names are replaced with or without the closing semicolon
Entities ==
    { [name |-> <<"&", "a", "m", "p">>, char |-> "&"],
      [name |-> <<"&", "l", "t">>, char |-> "<"],
      [name |-> <<"&", "g", "t">>, char |-> ">"],
      [name |-> <<"&", "n", "b", "s", "p">>, char |-> NBSP] }
IsEntityAt(s, i, e) ==
    /\ i + Len(e.name) - 1 <= Len(s)
    /\ SubSeq(s, i, i + Len(e.name) - 1) = e.name
\* the last position of the reference that starts at i
EntityLast(s, i, e) ==
    LET n == i + Len(e.name) - 1
    IN IF n < Len(s) /\ s[n + 1] = ";" THEN n + 1 ELSE n
unescape(s) ==
    LET Starts(x) == s[x.i] = "&" /\ \E e \in Entities : IsEntityAt(s, x.i, e)
        starts == SelectSeq(Indexed(s), Starts)
        EntOf(i) == CHOOSE e \in Entities : IsEntityAt(s, i, e)
        spans == {[lo |-> starts[k].i + 1,
                   hi |-> EntityLast(s, starts[k].i, EntOf(starts[k].i))] :
                     k \in 1..Len(starts)}
        Kept(x) == \A sp \in spans : x.i < sp.lo \/ x.i > sp.hi
        kept == SelectSeq(Indexed(s), Kept)
    IN [k \in 1..Len(kept) |->
          IF Starts(kept[k]) THEN EntOf(kept[k].i).char ELSE kept[k].c]

\* re.sub(r'\s+', ' ', text)
collapse_whitespace(s) ==
    LET Kept(x) == \/ s[x.i] \notin Whitespace
                   \/ x.i = 1
                   \/ s[x.i - 1] \notin Whitespace
        kept == SelectSeq(Indexed(s), Kept)
    IN [k \in 1..Len(kept) |->
          IF kept[k].c \in Whitespace THEN " " ELSE kept[k].c]

\* text.strip()
strip(s) ==
    LET Solid(x) == x.c \notin Whitespace
        solid == SelectSeq(Indexed(s), Solid)
    IN IF solid = <<>> THEN <<>>
       ELSE SubSeq(s, solid[1].i, solid[Len(solid)].i)

\* if not text: return ""  (None and the empty string are both <<>> here)
clean_html(text) ==
    IF text = <<>> THEN <<>>
    ELSE strip(collapse_whitespace(unescape(remove_tags(
            remove_blocks(remove_blocks(text, <<"s", "c", "r", "i", "p", "t">>),
                          <<"s", "t", "y", "l", "e">>)))))

(* ------------------------------------------------------------------ *)
(* Article candidates (the dictionaries built by parse_single_feed)     *)
(* ------------------------------------------------------------------ *)
Links == {"l1", "l2", "l3"}

\* two versions of the fields a feed may publish under one link
Versions == {"v1", "v2"}

Cand(l, v) ==
    IF v = "v1"
    THEN [title |-> "t1", link |-> l, source |-> "s1",
          published_date |-> None, content |-> <<"a">>]
    ELSE [title |-> "t2", link |-> l, source |-> "s2",
          published_date |-> "d2", content |-> <<"b">>]

\* the candidates the sequential calls draw their batches from
CandidatePool ==
    {Cand("l1", "v1"), Cand("l1", "v2"), Cand("l2", "v1"), Cand("l3", "v2")}

SeqsUpTo(S, n) == UNION {[1..k -> S] : k \in 0..n}

Batches == SeqsUpTo(CandidatePool, MaxBatch)

Runs == {"A", "B"}

\* two overlapping runs: each fetched its own version of the shared links
RunVersion(p) == IF p = "A" THEN "v1" ELSE "v2"
ConcBatches(p) == SeqsUpTo({Cand(l, RunVersion(p)) : l \in Links}, MaxConcBatch)

VARIABLES
    store,              \* the articles table: rows in insertion order
    pc,                 \* per persist run: position in save_articles_to_db
    articles,           \* per run: the batch passed to the call
    unique_articles,    \* per run: the batch after in-batch deduplication
    idx,                \* per run: index of the candidate being processed
    new_articles_count, \* per run: the counter the call returns
    store0,             \* history: the store when the call started
    log,                \* history: outcome of each processed candidate
    kind,               \* history: how the call relates to the other calls
    fpc,                \* position of the feed parser
    feed_in,            \* what feedparser.parse gave the parse_single_feed call
    max_in,             \* the max_articles argument of that call
    psf_out,            \* the list that call returned
    feed_idx,           \* parse_all_feeds: index of the next source
    all_articles,       \* parse_all_feeds: the candidates collected so far
    fetched,            \* history: what each source of the run returned
    spc,                \* position of the semantic_search call
    s_query,            \* its query argument
    s_limit,            \* its limit argument
    s_min,              \* its min_similarity argument, in hundredths
    query_embedding,    \* the embedding generated for the query
    s_result,           \* what the call returned
    s_outcome,          \* how the call ended
    embed_calls,        \* history: calls to generate_embedding in the call
    store_queries,      \* history: queries on the articles table in the call
    client,             \* whether the OpenAI client is configured
    epc,                \* position of the process_new_articles run
    e_limit,            \* its limit argument
    selected,           \* the store positions of the articles it selected
    e_idx,              \* index in selected of the article being processed
    pending,            \* the uncommitted changes of the session
    processed_count,    \* the counter the run returns
    e_log,              \* history: what happened to each article of the run
    e_store0,           \* history: the store when the run started
    g_req,              \* the /api/generate-summaries request being served
    digests,            \* the digests table: rows in insertion order
    dpc,                \* per digest request: position in its handler
    d_req,              \* per digest request: its locals and its response
    d_events,           \* history: digests created and deleted, in order
    cos_call            \* a call of cosine_similarity: arguments and result

persistVars == <<store, pc, articles, unique_articles, idx,
                 new_articles_count, store0, log, kind>>
persistLocals == <<pc, articles, unique_articles, idx, new_articles_count,
                   store0, log, kind>>
feedVars == <<fpc, feed_in, max_in, psf_out, feed_idx, all_articles, fetched>>

searchVars == <<spc, s_query, s_limit, s_min, query_embedding, s_result,
                s_outcome, embed_calls, store_queries>>
enrichVars == <<client, epc, e_limit, selected, e_idx, pending,
                processed_count, e_log, e_store0, g_req>>
digestVars == <<digests, dpc, d_req, d_events>>
cosVars == <<cos_call>>

vars == <<persistVars, feedVars, searchVars, enrichVars, digestVars, cosVars>>

\* an embedding column: NULL, or a stored vector (possibly the empty list)
Vec(v) == [has |-> TRUE, v |-> v]
NoVec == [has |-> FALSE, v |-> <<>>]

\* nothing staged in the session
NoPending == [summary |-> None, embedding |-> NoVec]

\* no /api/generate-summaries request is being served
NoRequest == [pc |-> "idle", limit |-> 0, status |-> 0, detail |-> None,
              summaries_generated |-> 0]

\* the requests served at the same time on the digest endpoints
DigestRequests == {"A", "B"}

\* a row of the digests table as a query returns it, or no row
NoEntry == [has |-> FALSE, id |-> 0, digest_date |-> None, content |-> None,
            article_count |-> 0]
Entry(row) == [has |-> TRUE, id |-> row.id, digest_date |-> row.digest_date,
               content |-> row.content, article_count |-> row.article_count]

\* a digest request that has not started
NoDigestRequest ==
    [op |-> "none", date |-> None, had_entry |-> FALSE, found |-> NoEntry,
     article_count |-> 0, calls |-> 0, content |-> None, status |-> 0,
     outcome |-> "none", digest |-> None]

\* no call of cosine_similarity is in progress
NoCosCall == [pc |-> "idle", vec1 |-> NoVec, vec2 |-> NoVec, score |-> 0]

SearchIdle ==
    /\ spc = "idle"
    /\ s_query = <<>>
    /\ s_limit = 0
    /\ s_min = 0
    /\ query_embedding = <<>>
    /\ s_result = <<>>
    /\ s_outcome = "none"
    /\ embed_calls = 0
    /\ store_queries = 0

EnrichIdle ==
    /\ epc = "idle"
    /\ e_limit = 0
    /\ selected = <<>>
    /\ e_idx = 1
    /\ pending = NoPending
    /\ processed_count = 0
    /\ e_log = <<>>
    /\ e_store0 = <<>>
    /\ g_req = NoRequest

DigestIdle ==
    /\ digests = <<>>
    /\ dpc = [p \in DigestRequests |-> "idle"]
    /\ d_req = [p \in DigestRequests |-> NoDigestRequest]
    /\ d_events = <<>>

CosIdle == cos_call = NoCosCall

(* ------------------------------------------------------------------ *)
(* save_articles_to_db                                                  *)
(* ------------------------------------------------------------------ *)

\* a deduplication that keeps the last candidate of each link
dedup_keep_last(batch) ==
    LET lastOf(l) == CHOOSE i \in 1..Len(batch) :
                        /\ batch[i].link = l
                        /\ \A j \in (i + 1)..Len(batch) : batch[j].link # l
        F[i \in 0..Len(batch)] ==
            IF i = 0 THEN [seen_links |-> {}, unique |-> <<>>]
            ELSE LET prev == F[i - 1]
                     a == batch[i]
                 IN IF a.link \notin prev.seen_links
                    THEN [seen_links |-> prev.seen_links \cup {a.link},
                          unique |-> Append(prev.unique, batch[lastOf(a.link)])]
                    ELSE prev
    IN F[Len(batch)].unique

\* STEP 1: keep the first occurrence of each link, in batch order
dedup_batch(batch) ==
    LET F[i \in 0..Len(batch)] ==
            IF i = 0 THEN [seen_links |-> {}, unique |-> <<>>]
            ELSE LET prev == F[i - 1]
                     a == batch[i]
                 IN IF a.link \notin prev.seen_links
                    THEN [seen_links |-> prev.seen_links \cup {a.link},
                          unique |-> Append(prev.unique, a)]
                    ELSE prev
    IN F[Len(batch)].unique

\* db_session.query(Article).filter(Article.link == link).first()
existing_article(db, link) == \E i \in 1..Len(db) : db[i].link = link

\* Article(title=..., link=..., source=..., published_date=..., content=...)
new_article(article_data) ==
    [title |-> article_data.title, link |-> article_data.link,
     source |-> article_data.source,
     published_date |-> article_data.published_date,
     content |-> article_data.content,
     summary |-> None, embedding |-> NoVec]

\* an existing row that takes the fields of the new candidate (an upsert)
on_existing_update(db, article_data) ==
    [i \in 1..Len(db) |->
        IF db[i].link = article_data.link THEN new_article(article_data)
        ELSE db[i]]

\* if existing_article: continue -- the stored row is left alone
on_existing(db, article_data) == db

\* a table without the constraint
no_unique_constraint(db, link) == FALSE

\* the uniqueness constraint of the articles table on link
unique_violation(db, link) == \E i \in 1..Len(db) : db[i].link = link

\* where the loop goes after the current candidate
next_pc(p) == IF idx[p] >= Len(unique_articles[p]) THEN "done" ELSE "check"

\* except IntegrityError: rollback, log, continue
on_integrity_error(p) == next_pc(p)

\* a handler that gives up on the rest of the batch
on_exception_break(p) == "done"

\* except Exception: rollback, log, continue
on_exception(p) == next_pc(p)

\* a call that reports how many candidates it looked at
return_candidate_count(p) == Len(unique_articles[p])

\* return new_articles_count
return_value(p) == new_articles_count[p]

current(p) == unique_articles[p][idx[p]]

Advance(p, outcome, to) ==
    /\ log' = [log EXCEPT ![p] = Append(@, [link |-> current(p).link,
                                            outcome |-> outcome])]
    /\ idx' = [idx EXCEPT ![p] = @ + 1]
    /\ pc' = [pc EXCEPT ![p] = to]

BeginCall(p, batch, k) ==
    /\ articles' = [articles EXCEPT ![p] = batch]
    /\ unique_articles' = [unique_articles EXCEPT ![p] = dedup_batch(batch)]
    /\ idx' = [idx EXCEPT ![p] = 1]
    /\ new_articles_count' = [new_articles_count EXCEPT ![p] = 0]
    /\ store0' = [store0 EXCEPT ![p] = store]
    /\ log' = [log EXCEPT ![p] = <<>>]
    /\ kind' = [kind EXCEPT ![p] = k]
    /\ pc' = [pc EXCEPT ![p] =
                IF dedup_batch(batch) = <<>> THEN "done" ELSE "check"]
    /\ UNCHANGED store
    /\ UNCHANGED <<feedVars, searchVars, enrichVars,
                 digestVars, cosVars>>

(* A call starts while no other call is running: in-batch deduplication *)
StartPersist(p) ==
    /\ pc[p] = "idle"
    /\ \A q \in Runs \ {p} : pc[q] = "idle"
    /\ \E batch \in Batches : BeginCall(p, batch, "fresh")

SameLinks(b1, b2) ==
    /\ Len(b1) = Len(b2)
    /\ \A i \in 1..Len(b1) : b1[i].link = b2[i].link

\* the candidates whose query or commit raised
FailureOutcomes == {"duplicate", "integrity", "error"}
Failed(l) == {i \in 1..Len(l) : l[i].outcome \in FailureOutcomes}

(* The same candidate list (the same links, any field values) is persisted *)
(* again right after the previous call returned                           *)
RepeatPersist(p) ==
    /\ pc[p] = "done"
    /\ kind[p] # "concurrent"
    /\ articles[p] # <<>>
    /\ \A q \in Runs \ {p} : pc[q] = "idle"
    /\ \E batch \in Batches :
          /\ SameLinks(batch, articles[p])
          /\ BeginCall(p, batch,
                       IF Failed(log[p]) = {} THEN "after_clean"
                       ELSE "after_failed")

(* A call starts while the other run may be in the middle of its own *)
StartConcurrent(p) ==
    /\ pc[p] = "idle"
    /\ \E batch \in ConcBatches(p) : BeginCall(p, batch, "concurrent")

(* The existence query raises: except Exception, rollback, continue *)
QueryError(p) ==
    /\ pc[p] = "check"
    /\ Advance(p, "error", on_exception(p))
    /\ UNCHANGED <<store, articles, unique_articles, new_articles_count,
                   store0, kind>>
    /\ UNCHANGED <<feedVars, searchVars, enrichVars,
                 digestVars, cosVars>>

(* if existing_article: continue *)
QueryFound(p) ==
    /\ pc[p] = "check"
    /\ existing_article(store, current(p).link)
    /\ store' = on_existing(store, current(p))
    /\ Advance(p, "exists", next_pc(p))
    /\ UNCHANGED <<articles, unique_articles, new_articles_count,
                   store0, kind>>
    /\ UNCHANGED <<feedVars, searchVars, enrichVars,
                 digestVars, cosVars>>

QueryNotFound(p) ==
    /\ pc[p] = "check"
    /\ ~existing_article(store, current(p).link)
    /\ pc' = [pc EXCEPT ![p] = "insert"]
    /\ UNCHANGED <<store, articles, unique_articles, idx, new_articles_count,
                   store0, log, kind>>
    /\ UNCHANGED <<feedVars, searchVars, enrichVars,
                 digestVars, cosVars>>

(* db_session.add(new_article); db_session.commit(); new_articles_count += 1 *)
CommitOk(p) ==
    /\ pc[p] = "insert"
    /\ ~unique_violation(store, current(p).link)
    /\ store' = Append(store, new_article(current(p)))
    /\ new_articles_count' = [new_articles_count EXCEPT ![p] = @ + 1]
    /\ Advance(p, "saved", next_pc(p))
    /\ UNCHANGED <<articles, unique_articles, store0, kind>>
    /\ UNCHANGED <<feedVars, searchVars, enrichVars,
                 digestVars, cosVars>>

(* commit raises IntegrityError: for the link when it is already stored    *)
(* ("duplicate"), or for another constraint of the table ("integrity");    *)
(* rollback, continue                                                      *)
CommitIntegrityError(p) ==
    /\ pc[p] = "insert"
    /\ Advance(p, IF unique_violation(store, current(p).link)
                  THEN "duplicate" ELSE "integrity",
               on_integrity_error(p))
    /\ UNCHANGED <<store, articles, unique_articles, new_articles_count,
                   store0, kind>>
    /\ UNCHANGED <<feedVars, searchVars, enrichVars,
                 digestVars, cosVars>>

(* commit raises any other exception: rollback, continue *)
CommitError(p) ==
    /\ pc[p] = "insert"
    /\ Advance(p, "error", on_exception(p))
    /\ UNCHANGED <<store, articles, unique_articles, new_articles_count,
                   store0, kind>>
    /\ UNCHANGED <<feedVars, searchVars, enrichVars,
                 digestVars, cosVars>>

(* return new_articles_count: the call is over *)
Return(p) ==
    /\ pc[p] = "done"
    /\ kind[p] # "concurrent"
    /\ pc' = [pc EXCEPT ![p] = "idle"]
    /\ articles' = [articles EXCEPT ![p] = <<>>]
    /\ unique_articles' = [unique_articles EXCEPT ![p] = <<>>]
    /\ idx' = [idx EXCEPT ![p] = 1]
    /\ new_articles_count' = [new_articles_count EXCEPT ![p] = 0]
    /\ store0' = [store0 EXCEPT ![p] = <<>>]
    /\ log' = [log EXCEPT ![p] = <<>>]
    /\ kind' = [kind EXCEPT ![p] = "fresh"]
    /\ UNCHANGED store
    /\ UNCHANGED <<feedVars, searchVars, enrichVars,
                 digestVars, cosVars>>

PersistIdle ==
    /\ pc = [p \in Runs |-> "idle"]
    /\ articles = [p \in Runs |-> <<>>]
    /\ unique_articles = [p \in Runs |-> <<>>]
    /\ idx = [p \in Runs |-> 1]
    /\ new_articles_count = [p \in Runs |-> 0]
    /\ store0 = [p \in Runs |-> <<>>]
    /\ log = [p \in Runs |-> <<>>]
    /\ kind = [p \in Runs |-> "fresh"]

(* ------------------------------------------------------------------ *)
(* Feed entries, as feedparser hands them to parse_single_feed          *)
(* ------------------------------------------------------------------ *)
\* an attribute of an entry: present with a value, or missing
Str(v) == [has |-> TRUE, v |-> v]
NoStr == [has |-> FALSE, v |-> ""]
Text(v) == [has |-> TRUE, v |-> v]
NoText == [has |-> FALSE, v |-> <<>>]

GoodDate == "Mon, 01 Jan 2024 12:00:00 GMT"
BadDate == "yesterday"

EntryBase ==
    [title |-> NoStr, link |-> NoStr, published |-> NoStr, updated |-> NoStr,
     content |-> NoText, summary |-> NoText, description |-> NoText,
     broken |-> FALSE]

\* a content body with markup, next to a summary and a description
E_plain ==
    [EntryBase EXCEPT !.title = Str("t1"), !.link = Str("l1"),
        !.published = Str(GoodDate),
        !.content = Text(<< <<"<", "p", ">", "a", " ", " ", "b", "<", "/", "p", ">">> >>),
        !.summary = Text(<<"s">>), !.description = Text(<<"d">>)]
\* no title, an empty content list, a summary of 251 characters once cleaned,
\* a date that cannot be parsed
E_251 ==
    [EntryBase EXCEPT !.link = Str("l2"), !.updated = Str(BadDate),
        !.content = Text(<<>>),
        !.summary = Text(Rep("a", 249) \o <<"&", "a", "m", "p", ";", "b", " ">>),
        !.description = Text(<<"d">>)]
\* no link attribute
E_nolink ==
    [EntryBase EXCEPT !.title = Str("t2"), !.description = Text(<<"d">>)]
\* an empty link
E_emptylink ==
    [EntryBase EXCEPT !.title = Str("t1"), !.link = Str(""),
        !.summary = Text(<<"s">>)]
\* an entry whose extraction raises (a content attribute that cannot be indexed)
E_broken ==
    [EntryBase EXCEPT !.title = Str("t2"), !.link = Str("l3"),
        !.content = Text(<< <<"x">> >>), !.broken = TRUE]
\* only a description, of exactly 250 characters once cleaned
E_250 ==
    [EntryBase EXCEPT !.title = Str("t2"), !.link = Str("l3"),
        !.published = Str(BadDate), !.updated = Str(GoodDate),
        !.description = Text(<<"<", "b", ">">> \o Rep("a", 250))]
\* an empty summary and a description
E_sumempty ==
    [EntryBase EXCEPT !.title = Str("t2"), !.link = Str("l2"),
        !.summary = Text(<<>>), !.description = Text(<<"b">>)]
\* a content element with an empty body, next to a summary
E_emptybody ==
    [EntryBase EXCEPT !.title = Str("t1"), !.link = Str("l3"),
        !.content = Text(<< <<>> >>), !.summary = Text(<<"s">>)]

EntryPool ==
    {E_plain, E_251, E_nolink, E_emptylink, E_broken, E_250, E_sumempty,
     E_emptybody}
\* the entries the parse_all_feeds runs draw their feeds from
SourceEntryPool == {E_plain, E_sumempty, E_broken}

\* feedparser.parse(feed_url): raises, or a feed with its entries
Raises == [raises |-> TRUE, entries |-> <<>>]
Feed(es) == [raises |-> FALSE, entries |-> es]
FeedResults == {Raises} \cup {Feed(es) : es \in SeqsUpTo(EntryPool, MaxFeedLen)}
NoRepeat(sq) == \A i, j \in 1..Len(sq) : sq[i] = sq[j] => i = j
\* what a source of a parse_all_feeds run serves: its entries are distinct
SourceResults ==
    {Raises} \cup
    {Feed(es) : es \in {sq \in SeqsUpTo(SourceEntryPool, MaxFeedLen) : NoRepeat(sq)}}
MaxItemsSet == (0 - 2)..(MaxFeedLen + 1)

\* config.RSS_FEEDS (three of the configured sources)
RSS_FEEDS ==
    << "https://www.yogonet.com/international/europe/rss.xml",
       "https://europeangaming.eu/portal/feed/",
       "https://sbcnews.co.uk/feed/" >>
\* config.MAX_ARTICLES_PER_FEED, as the environment of the model sets it
MAX_ARTICLES_PER_FEED == 2
\* the length content is cut to
CONTENT_LIMIT == 250

(* ------------------------------------------------------------------ *)
(* parse_single_feed and parse_all_feeds                                *)
(* ------------------------------------------------------------------ *)
\* the names of the sources of the model (the other branches are not reached)
extract_source_name(feed_url) ==
    CASE feed_url = "https://www.yogonet.com/international/europe/rss.xml"
            -> "Yogonet Europe"
      [] feed_url = "https://europeangaming.eu/portal/feed/" -> "European Gaming"
      [] feed_url = "https://sbcnews.co.uk/feed/" -> "SBC News"

\* parsedate_to_datetime, None when the string is empty or cannot be parsed
parse_published_date(date_string) ==
    IF date_string = "" THEN None
    ELSE IF date_string = GoodDate THEN "2024-01-01T12:00:00+00:00"
    ELSE None

\* a parser that reads every entry
no_slice(sq, n) == sq

\* seq[:n] of Python
py_slice(sq, n) ==
    LET stop == IF n >= 0 THEN (IF n < Len(sq) THEN n ELSE Len(sq))
                ELSE (IF Len(sq) + n > 0 THEN Len(sq) + n ELSE 0)
    IN SubSeq(sq, 1, stop)

\* the published date of an entry (lines 170-174)
entry_date(entry) ==
    IF entry.published.has THEN parse_published_date(entry.published.v)
    ELSE IF entry.updated.has THEN parse_published_date(entry.updated.v)
    ELSE None

\* the raw content of an entry (lines 176-183)
raw_content(entry) ==
    IF entry.content.has /\ entry.content.v # <<>> THEN entry.content.v[1]
    ELSE IF entry.summary.has THEN entry.summary.v
    ELSE IF entry.description.has THEN entry.description.v
    ELSE <<>>

\* a cut at CONTENT_LIMIT characters or more
truncate_from_limit(clean_content) ==
    IF Len(clean_content) >= CONTENT_LIMIT
    THEN SubSeq(clean_content, 1, CONTENT_LIMIT) \o <<".", ".", ".">>
    ELSE clean_content

\* Limit to 250 characters (lines 188-192)
truncate_content(clean_content) ==
    IF Len(clean_content) > CONTENT_LIMIT
    THEN SubSeq(clean_content, 1, CONTENT_LIMIT) \o <<".", ".", ".">>
    ELSE clean_content

\* the content of the article of each entry of the pool (lines 176-192),
\* computed once for all the calls of a run
entry_content ==
    [e \in EntryPool |-> truncate_content(clean_html(raw_content(e)))]

\* a parser that keeps entries without a link
keep_without_link(link) == FALSE

\* if not article_data["link"]: continue
skip_without_link(link) == link = ""

\* one entry: the article dictionaries it appends to the list, none when the
\* entry has no link (lines 166-168) or raises (lines 196-198)
extract_entry(entry, source_name) ==
    LET link == IF entry.link.has THEN entry.link.v ELSE ""
    IN IF skip_without_link(link) THEN <<>>
       ELSE IF entry.broken THEN <<>>
       ELSE << [title |-> IF entry.title.has THEN entry.title.v ELSE "No title",
             link |-> link,
             source |-> source_name,
             published_date |-> entry_date(entry),
             content |-> entry_content[entry]] >>

parse_single_feed(feed_url, feed, max_articles) ==
    LET source_name == extract_source_name(feed_url)
        entries == py_slice(feed.entries, max_articles)
        F[i \in 0..Len(entries)] ==
            IF i = 0 THEN <<>>
            ELSE F[i - 1] \o extract_entry(entries[i], source_name)
    IN IF feed.raises THEN <<>>
       ELSE IF feed.entries = <<>> THEN <<>>
       ELSE F[Len(entries)]

FeedIdle ==
    /\ fpc = "idle"
    /\ feed_in = Raises
    /\ max_in = 0
    /\ psf_out = <<>>
    /\ feed_idx = 1
    /\ all_articles = <<>>
    /\ fetched = <<>>

(* parse_single_feed(feed_url, max_articles) on whatever the source serves *)
ParseSingleFeedCall ==
    /\ fpc = "idle"
    /\ \E feed \in FeedResults, max_articles \in MaxItemsSet :
          /\ feed_in' = feed
          /\ max_in' = max_articles
          /\ psf_out' = parse_single_feed(RSS_FEEDS[1], feed, max_articles)
    /\ fpc' = "single_done"
    /\ UNCHANGED <<feed_idx, all_articles, fetched>>
    /\ UNCHANGED <<persistVars, searchVars, enrichVars,
                 digestVars, cosVars>>

ParseSingleFeedReturn ==
    /\ fpc = "single_done"
    /\ fpc' = "idle"
    /\ feed_in' = Raises
    /\ max_in' = 0
    /\ psf_out' = <<>>
    /\ UNCHANGED <<feed_idx, all_articles, fetched>>
    /\ UNCHANGED <<persistVars, searchVars, enrichVars,
                 digestVars, cosVars>>

(* parse_all_feeds: all_articles = [] *)
ParseAllFeedsStart ==
    /\ fpc = "idle"
    /\ fpc' = "loop"
    /\ feed_idx' = 1
    /\ all_articles' = <<>>
    /\ fetched' = <<>>
    /\ UNCHANGED <<feed_in, max_in, psf_out>>
    /\ UNCHANGED <<persistVars, searchVars, enrichVars,
                 digestVars, cosVars>>

\* a loop that gives up when a source raised
after_feed_abort(i, raised) ==
    IF raised \/ i >= Len(RSS_FEEDS) THEN "all_done" ELSE "loop"

\* for feed_url in RSS_FEEDS: the loop goes on whether the source raised or not
after_feed(i, raised) == IF i >= Len(RSS_FEEDS) THEN "all_done" ELSE "loop"

(* one iteration of the loop over RSS_FEEDS (lines 219-230) *)
FetchSource ==
    /\ fpc = "loop"
    /\ \E feed \in SourceResults :
          LET got == parse_single_feed(RSS_FEEDS[feed_idx], feed,
                                       MAX_ARTICLES_PER_FEED)
          IN /\ all_articles' = all_articles \o got
             /\ fetched' = Append(fetched, [url |-> RSS_FEEDS[feed_idx],
                                            feed |-> feed])
             /\ fpc' = after_feed(feed_idx, feed.raises)
    /\ feed_idx' = feed_idx + 1
    /\ UNCHANGED <<feed_in, max_in, psf_out>>
    /\ UNCHANGED <<persistVars, searchVars, enrichVars,
                 digestVars, cosVars>>

(* return all_articles *)
ParseAllFeedsReturn ==
    /\ fpc = "all_done"
    /\ fpc' = "idle"
    /\ feed_idx' = 1
    /\ all_articles' = <<>>
    /\ fetched' = <<>>
    /\ UNCHANGED <<feed_in, max_in, psf_out>>
    /\ UNCHANGED <<persistVars, searchVars, enrichVars,
                 digestVars, cosVars>>

InitFeed ==
    /\ store = <<>>
    /\ PersistIdle
    /\ FeedIdle
    /\ SearchIdle
    /\ EnrichIdle
    /\ DigestIdle
    /\ CosIdle
    /\ client = TRUE

NextFeed ==
    \/ ParseSingleFeedCall
    \/ ParseSingleFeedReturn
    \/ ParseAllFeedsStart
    \/ FetchSource
    \/ ParseAllFeedsReturn

SpecFeed == InitFeed /\ [][NextFeed]_vars

(* ------------------------------------------------------------------ *)
(* cosine_similarity and semantic_search (search.py)                    *)
(* ------------------------------------------------------------------ *)
\* Scores are kept in hundredths (100 is the score 1.0). The vectors of the
\* model have integer norms, so the arithmetic below is exact for them.
Dot(a, b) ==
    LET F[i \in 0..Len(a)] == IF i = 0 THEN 0 ELSE F[i - 1] + a[i] * b[i]
    IN F[Len(a)]
\* np.linalg.norm
Norm(a) ==
    LET ss == Dot(a, a)
    IN CHOOSE r \in 0..ss : r * r <= ss /\ (r + 1) * (r + 1) > ss

\* a version that answers a failed computation with the score of cosine 0
cosine_half_on_failure(vec1, vec2) ==
    IF vec1 = <<>> \/ vec2 = <<>> THEN 50
    ELSE IF Len(vec1) # Len(vec2) THEN 50
    ELSE IF Norm(vec1) = 0 \/ Norm(vec2) = 0 THEN 50
    ELSE (50 * Dot(vec1, vec2)) \div (Norm(vec1) * Norm(vec2)) + 50

\* a version that returns the cosine itself
cosine_unscaled(vec1, vec2) ==
    IF vec1 = <<>> \/ vec2 = <<>> THEN 0
    ELSE IF Len(vec1) # Len(vec2) THEN 0
    ELSE IF Norm(vec1) = 0 \/ Norm(vec2) = 0 THEN 0
    ELSE (100 * Dot(vec1, vec2)) \div (Norm(vec1) * Norm(vec2))

\* if not vec1 or not vec2: 0.0 (None and [] alike); a zero norm: 0.0;
\* otherwise (similarity + 1) / 2
cosine_similarity(vec1, vec2) ==
    IF vec1 = <<>> \/ vec2 = <<>> THEN 0
    \* np.dot raises on vectors of different lengths: except Exception, 0.0
    ELSE IF Len(vec1) # Len(vec2) THEN 0
    ELSE IF Norm(vec1) = 0 \/ Norm(vec2) = 0 THEN 0
    ELSE (50 * Dot(vec1, vec2)) \div (Norm(vec1) * Norm(vec2)) + 50

\* a check that lets only the empty string through
is_empty_string(query) == query = <<>>

\* if not query or not query.strip()
is_blank(query) == query = <<>> \/ strip(query) = <<>>

\* db_session.query(Article).filter(Article.embedding.isnot(None)).all()
articles_with_embeddings(db) ==
    LET Embedded(row) == row.embedding.has
    IN SelectSeq(db, Embedded)

\* a loop that scores every row the query returned
never_skipped(article_embedding) == FALSE

\* if not article_embedding: continue
skip_article(article_embedding) ==
    ~article_embedding.has \/ article_embedding.v = <<>>

\* the loop over articles_with_embeddings (lines 110-125)
score_articles(rows, q) ==
    LET F[i \in 0..Len(rows)] ==
            IF i = 0 THEN <<>>
            ELSE IF skip_article(rows[i].embedding) THEN F[i - 1]
            ELSE Append(F[i - 1],
                        [article |-> rows[i],
                         score |-> cosine_similarity(q, rows[i].embedding.v)])
    IN F[Len(rows)]

\* a list left in the order of the scan
unsorted(scores) == scores

\* article_scores.sort(key=lambda x: x[1], reverse=True): a stable sort,
\* equal scores keep the order of the scan
sort_by_score(scores) ==
    LET Insert(sorted, x) ==
            LET n == Cardinality({k \in 1..Len(sorted) :
                                     sorted[k].score >= x.score})
            IN SubSeq(sorted, 1, n) \o <<x>> \o SubSeq(sorted, n + 1, Len(sorted))
        F[i \in 0..Len(scores)] ==
            IF i = 0 THEN <<>> ELSE Insert(F[i - 1], scores[i])
    IN F[Len(scores)]

\* a filter that lets every score through
passes_always(score, min_similarity) == TRUE

\* if score >= min_similarity
passes(score, min_similarity) == score >= min_similarity

filter_results(scores, min_similarity) ==
    LET Ok(x) == passes(x.score, min_similarity)
    IN SelectSeq(scores, Ok)

\* a selection that cuts the scan to limit before it ranks
cut_then_rank(scores, limit, min_similarity) ==
    filter_results(sort_by_score(py_slice(scores, limit)), min_similarity)

\* lines 127-137: sort, filter by min_similarity, filtered_results[:limit]
top_results(scores, limit, min_similarity) ==
    py_slice(filter_results(sort_by_score(scores), min_similarity), limit)

\* a failure that reaches the caller
search_error_raised == "raised"

\* except Exception: log, return []
on_search_error == "error"

\* the stored embeddings of the model
StoredEmbeddings ==
    {NoVec, Vec(<<>>), Vec(<<1, 0>>), Vec(<<0 - 1, 0>>), Vec(<<3, 4>>),
     Vec(<<1, 0, 0>>)}
LinkAt == <<"l1", "l2", "l3", "l4">>
StoredArticle(i, emb) ==
    [new_article(Cand(LinkAt[i], "v1")) EXCEPT
        !.summary = "sum1", !.embedding = emb]
\* the stores a search runs on
SearchStores ==
    {[i \in 1..Len(es) |-> StoredArticle(i, es[i])] :
        es \in SeqsUpTo(StoredEmbeddings, MaxStore)}
\* None or "", only whitespace, a query with text
Queries == {<<>>, <<" ", "\t">>, <<" ", "q">>}
SearchLimits == (0 - 1)..MaxStore
MinSimilarities == {0, 65, 100}
QueryEmbeddings == {<<1, 0>>, <<3, 4>>}

\* the call ends: "blank" (empty query), "no_embedding", "error" (a failure
\* caught, [] returned), "ok", or "raised" (a failure left to the caller)
EndSearch(result, outcome) ==
    /\ spc' = "s_done"
    /\ s_result' = result
    /\ s_outcome' = outcome

(* semantic_search(query, db_session, limit, min_similarity) is called *)
SearchCall ==
    /\ spc = "idle"
    /\ \E query \in Queries, limit \in SearchLimits,
          min_similarity \in MinSimilarities :
          /\ s_query' = query
          /\ s_limit' = limit
          /\ s_min' = min_similarity
          /\ IF is_blank(query)
             THEN EndSearch(<<>>, "blank")
             ELSE /\ spc' = "s_embed"
                  /\ UNCHANGED <<s_result, s_outcome>>
    /\ UNCHANGED <<query_embedding, embed_calls, store_queries>>
    /\ UNCHANGED <<store, persistVars, feedVars, enrichVars,
                 digestVars, cosVars>>

(* query_embedding = generate_embedding(query) returns a vector *)
EmbedQueryOk ==
    /\ spc = "s_embed"
    /\ \E v \in QueryEmbeddings : query_embedding' = v
    /\ embed_calls' = embed_calls + 1
    /\ spc' = "s_store"
    /\ UNCHANGED <<s_query, s_limit, s_min, s_result, s_outcome, store_queries>>
    /\ UNCHANGED <<store, persistVars, feedVars, enrichVars,
                 digestVars, cosVars>>

(* generate_embedding returns nothing: if not query_embedding: return [] *)
EmbedQueryEmpty ==
    /\ spc = "s_embed"
    /\ embed_calls' = embed_calls + 1
    /\ EndSearch(<<>>, "no_embedding")
    /\ UNCHANGED <<s_query, s_limit, s_min, query_embedding, store_queries>>
    /\ UNCHANGED <<store, persistVars, feedVars, enrichVars,
                 digestVars, cosVars>>

(* generate_embedding raises *)
EmbedQueryFails ==
    /\ spc = "s_embed"
    /\ embed_calls' = embed_calls + 1
    /\ EndSearch(<<>>, on_search_error)
    /\ UNCHANGED <<s_query, s_limit, s_min, query_embedding, store_queries>>
    /\ UNCHANGED <<store, persistVars, feedVars, enrichVars,
                 digestVars, cosVars>>

(* the query on the articles table raises *)
StoreQueryFails ==
    /\ spc = "s_store"
    /\ store_queries' = store_queries + 1
    /\ EndSearch(<<>>, on_search_error)
    /\ UNCHANGED <<s_query, s_limit, s_min, query_embedding, embed_calls>>
    /\ UNCHANGED <<store, persistVars, feedVars, enrichVars,
                 digestVars, cosVars>>

(* the query returns the embedded articles: score, sort, filter, cut *)
StoreQueryOk ==
    /\ spc = "s_store"
    /\ store_queries' = store_queries + 1
    /\ LET rows == articles_with_embeddings(store)
       IN IF rows = <<>> THEN EndSearch(<<>>, "ok")
          ELSE EndSearch(top_results(score_articles(rows, query_embedding),
                                     s_limit, s_min), "ok")
    /\ UNCHANGED <<s_query, s_limit, s_min, query_embedding, embed_calls>>
    /\ UNCHANGED <<store, persistVars, feedVars, enrichVars,
                 digestVars, cosVars>>

(* the caller has the result: the call is over *)
SearchReturn ==
    /\ spc = "s_done"
    /\ spc' = "idle"
    /\ s_query' = <<>>
    /\ s_limit' = 0
    /\ s_min' = 0
    /\ query_embedding' = <<>>
    /\ s_result' = <<>>
    /\ s_outcome' = "none"
    /\ embed_calls' = 0
    /\ store_queries' = 0
    /\ UNCHANGED <<store, persistVars, feedVars, enrichVars,
                 digestVars, cosVars>>

InitSearch ==
    /\ store \in SearchStores
    /\ PersistIdle
    /\ FeedIdle
    /\ SearchIdle
    /\ EnrichIdle
    /\ DigestIdle
    /\ CosIdle
    /\ client = TRUE

NextSearch ==
    \/ SearchCall
    \/ EmbedQueryOk
    \/ EmbedQueryEmpty
    \/ EmbedQueryFails
    \/ StoreQueryFails
    \/ StoreQueryOk
    \/ SearchReturn

SpecSearch == InitSearch /\ [][NextSearch]_vars

(* ------------------------------------------------------------------ *)
(* process_new_articles (openai_summarizer.py)                          *)
(* ------------------------------------------------------------------ *)
\* a worker that regenerates the summary of every article it selects
always_needs_summary(row) == TRUE

\* if not article.summary
needs_summary(row) == row.summary \in {None, ""}

\* if not article.embedding
needs_embedding(row) == ~row.embedding.has \/ row.embedding.v = <<>>

\* a selection that takes the first limit rows whatever they hold
select_unfiltered(db, limit) ==
    SubSeq([i \in 1..Len(db) |-> i], 1,
           IF limit < Len(db) THEN limit ELSE Len(db))

\* filter((summary IS NULL | summary == "") | embedding IS NULL).limit(limit):
\* the store positions of the first limit such rows
select_articles(db, limit) ==
    LET Lacking(i) == \/ db[i].summary \in {None, ""}
                      \/ ~db[i].embedding.has
        positions == [i \in 1..Len(db) |-> i]
        lacking == SelectSeq(positions, Lacking)
    IN SubSeq(lacking, 1, IF limit < Len(lacking) THEN limit ELSE Len(lacking))

\* where the loop body starts for a row (lines 364, 370, 378)
article_pc(row) ==
    IF needs_summary(row) THEN "e_summary"
    ELSE IF needs_embedding(row) THEN "e_embed"
    ELSE "e_commit"

\* for article in articles_without_summary: the next article, or the end
after_article(k) ==
    IF k >= Len(selected) THEN "e_done" ELSE article_pc(store[selected[k + 1]])

\* summarize_single_article and generate_embedding turn the RateLimitError
\* of the API into a plain Exception (lines 79-81 and 132-134), so the
\* handler that takes it is "except Exception" (390-394): rollback, continue
on_rate_limit(k) == after_article(k)

\* a handler that gives up on the rest of the run
stop_on_error(k) == "e_done"

\* except Exception: log, rollback, continue
on_article_error(k) == after_article(k)

\* db_session.commit(): the staged fields reach the row
commit_pending(db, i, staged) ==
    [db EXCEPT ![i] =
        [@ EXCEPT !.summary = IF staged.summary # None THEN staged.summary
                              ELSE @,
                  !.embedding = IF staged.embedding.has THEN staged.embedding
                                ELSE @]]

\* a handler that keeps what was staged
flush_on_error(db, i, staged) == commit_pending(db, i, staged)

\* db_session.rollback(): the staged fields are dropped
rollback_store(db, i, staged) == db

\* what the collaborators return when they succeed
GeneratedSummaries == {"sum1", "sum2"}
GeneratedEmbeddings == {Vec(<<3, 4>>), Vec(<<1, 0>>)}
\* the largest limit /api/generate-summaries admits (main.py 261)
MAX_LIMIT == 100
EnrichLimits == (1..MaxEnrichRows) \cup {MAX_LIMIT}
\* limits the endpoint has to turn down
InvalidLimits == {0 - 1, 0, MAX_LIMIT + 1}

\* if limit < 1 or limit > 100 (main.py 261)
limit_rejected(limit) == limit < 1 \/ limit > MAX_LIMIT

\* raise HTTPException(400, ...) is inside the try block of generate_summaries
\* and the only handler is "except Exception" (main.py 280-285), which takes
\* it and answers 500
on_invalid_limit ==
    [status |-> 500, detail |-> "Failed to generate summaries"]

\* a run that forgets to count
count_unchanged(n) == n

\* processed_count += 1 (line 380)
count_processed(n) == n + 1
\* the store before the first run: empty, or one article that got its
\* summary before embeddings were stored
EnrichInitStores ==
    {<<>>, <<[new_article(Cand("l1", "v1")) EXCEPT !.summary = "sum0"]>>}

cur == selected[e_idx]
EnrichEvent(ev) == e_log' = Append(e_log, [i |-> cur, ev |-> ev])

\* the article in hand failed: rollback, then the handler decides
FailArticle(ev, to) ==
    /\ store' = rollback_store(store, cur, pending)
    /\ pending' = NoPending
    /\ EnrichEvent(ev)
    /\ e_idx' = e_idx + 1
    /\ epc' = to
    /\ UNCHANGED <<client, e_limit, selected, processed_count, e_store0,
                   g_req>>
    /\ UNCHANGED <<persistLocals, feedVars, searchVars,
                 digestVars, cosVars>>

(* save_articles_to_db is called with one candidate between two runs *)
StartPersistOne(p) ==
    /\ pc[p] = "idle"
    /\ epc = "idle"
    /\ g_req.pc = "idle"
    /\ \E i \in 1..MaxEnrichRows :
          /\ i <= Len(store) + 1
          /\ BeginCall(p, <<Cand(LinkAt[i], "v1")>>, "fresh")

(* POST /api/generate-summaries with a limit outside 1..100: the handler  *)
(* raises the 400 inside its try block and answers what its except gives *)
GenerateSummariesInvalid ==
    /\ g_req.pc = "idle"
    /\ epc = "idle"
    /\ pc["A"] = "idle"
    /\ \E limit \in InvalidLimits :
          /\ limit_rejected(limit)
          /\ g_req' = [NoRequest EXCEPT !.pc = "g_done", !.limit = limit,
                                        !.status = on_invalid_limit.status,
                                        !.detail = on_invalid_limit.detail]
    /\ UNCHANGED <<store, client, epc, e_limit, selected, e_idx, pending,
                   processed_count, e_log, e_store0>>
    /\ UNCHANGED <<persistLocals, feedVars, searchVars,
                 digestVars, cosVars>>

(* POST /api/generate-summaries with a limit in 1..100 and no client:   *)
(* process_new_articles(db, limit=limit) returns 0 at once              *)
EnrichNoClient ==
    /\ epc = "idle"
    /\ g_req.pc = "idle"
    /\ pc["A"] = "idle"
    /\ ~client
    /\ \E limit \in EnrichLimits :
          /\ ~limit_rejected(limit)
          /\ e_limit' = limit
          /\ g_req' = [NoRequest EXCEPT !.pc = "g_running", !.limit = limit]
    /\ epc' = "e_done"
    /\ e_store0' = store
    /\ UNCHANGED <<store, client, selected, e_idx, pending, processed_count, e_log>>
    /\ UNCHANGED <<persistLocals, feedVars, searchVars,
                 digestVars, cosVars>>

(* POST /api/generate-summaries with a limit in 1..100 and a client:    *)
(* process_new_articles(db, limit=limit) starts                         *)
EnrichStart ==
    /\ epc = "idle"
    /\ g_req.pc = "idle"
    /\ pc["A"] = "idle"
    /\ client
    /\ \E limit \in EnrichLimits :
          /\ ~limit_rejected(limit)
          /\ e_limit' = limit
          /\ g_req' = [NoRequest EXCEPT !.pc = "g_running", !.limit = limit]
    /\ epc' = "e_query"
    /\ e_store0' = store
    /\ UNCHANGED <<store, client, selected, e_idx, pending, processed_count, e_log>>
    /\ UNCHANGED <<persistLocals, feedVars, searchVars,
                 digestVars, cosVars>>

(* the selection query raises: outer except, rollback, return 0 *)
EnrichQueryFails ==
    /\ epc = "e_query"
    /\ epc' = "e_done"
    /\ UNCHANGED <<store, client, e_limit, selected, e_idx, pending,
                   processed_count, e_log, e_store0, g_req>>
    /\ UNCHANGED <<persistLocals, feedVars, searchVars,
                 digestVars, cosVars>>

(* the selection query answers; processed_count = 0; the loop starts *)
EnrichQueryOk ==
    /\ epc = "e_query"
    /\ selected' = select_articles(store, e_limit)
    /\ e_idx' = 1
    /\ epc' = IF select_articles(store, e_limit) = <<>> THEN "e_done"
              ELSE article_pc(store[select_articles(store, e_limit)[1]])
    /\ UNCHANGED <<store, client, e_limit, pending, processed_count, e_log,
                   e_store0, g_req>>
    /\ UNCHANGED <<persistLocals, feedVars, searchVars,
                 digestVars, cosVars>>

(* article.summary = summarize_single_article(title, content) *)
SummarizeOk ==
    /\ epc = "e_summary"
    /\ \E summary \in GeneratedSummaries :
          pending' = [pending EXCEPT !.summary = summary]
    /\ EnrichEvent("summary_ok")
    /\ epc' = IF needs_embedding(store[cur]) THEN "e_embed" ELSE "e_commit"
    /\ UNCHANGED <<store, client, e_limit, selected, e_idx, processed_count,
                   e_store0, g_req>>
    /\ UNCHANGED <<persistLocals, feedVars, searchVars,
                 digestVars, cosVars>>

(* the chat API answers with a rate-limit error *)
SummarizeRateLimited ==
    /\ epc = "e_summary"
    /\ FailArticle("summary_rate_limit", on_rate_limit(e_idx))

(* the chat API fails otherwise *)
SummarizeFails ==
    /\ epc = "e_summary"
    /\ FailArticle("summary_error", on_article_error(e_idx))

(* article.embedding = generate_embedding(text_for_embedding) *)
EmbedArticleOk ==
    /\ epc = "e_embed"
    /\ \E embedding \in GeneratedEmbeddings :
          pending' = [pending EXCEPT !.embedding = embedding]
    /\ EnrichEvent("embed_ok")
    /\ epc' = "e_commit"
    /\ UNCHANGED <<store, client, e_limit, selected, e_idx, processed_count,
                   e_store0, g_req>>
    /\ UNCHANGED <<persistLocals, feedVars, searchVars,
                 digestVars, cosVars>>

(* the embeddings API answers with a rate-limit error *)
EmbedArticleRateLimited ==
    /\ epc = "e_embed"
    /\ FailArticle("embed_rate_limit", on_rate_limit(e_idx))

(* the embeddings API fails otherwise *)
EmbedArticleFails ==
    /\ epc = "e_embed"
    /\ FailArticle("embed_error", on_article_error(e_idx))

(* db_session.commit(); processed_count += 1 *)
EnrichCommitOk ==
    /\ epc = "e_commit"
    /\ store' = commit_pending(store, cur, pending)
    /\ pending' = NoPending
    /\ processed_count' = count_processed(processed_count)
    /\ EnrichEvent("committed")
    /\ e_idx' = e_idx + 1
    /\ epc' = after_article(e_idx)
    /\ UNCHANGED <<client, e_limit, selected, e_store0, g_req>>
    /\ UNCHANGED <<persistLocals, feedVars, searchVars,
                 digestVars, cosVars>>

(* db_session.commit() raises *)
EnrichCommitFails ==
    /\ epc = "e_commit"
    /\ FailArticle("commit_error", on_article_error(e_idx))

(* return processed_count: the run is over and the endpoint answers     *)
(* {"status": "success", "summaries_generated": summaries_count}        *)
EnrichReturn ==
    /\ epc = "e_done"
    /\ epc' = "idle"
    /\ g_req' = [g_req EXCEPT !.pc = "g_done", !.status = 200,
                              !.summaries_generated = processed_count]
    /\ e_limit' = 0
    /\ selected' = <<>>
    /\ e_idx' = 1
    /\ pending' = NoPending
    /\ processed_count' = 0
    /\ e_log' = <<>>
    /\ e_store0' = <<>>
    /\ UNCHANGED <<store, client>>
    /\ UNCHANGED <<persistLocals, feedVars, searchVars,
                 digestVars, cosVars>>

(* the response has been sent *)
GenerateSummariesRespond ==
    /\ g_req.pc = "g_done"
    /\ g_req' = NoRequest
    /\ UNCHANGED <<store, client, epc, e_limit, selected, e_idx, pending,
                   processed_count, e_log, e_store0>>
    /\ UNCHANGED <<persistLocals, feedVars, searchVars,
                 digestVars, cosVars>>

InitEnrich ==
    /\ store \in EnrichInitStores
    /\ client \in BOOLEAN
    /\ PersistIdle
    /\ FeedIdle
    /\ SearchIdle
    /\ EnrichIdle
    /\ DigestIdle
    /\ CosIdle

NextEnrich ==
    \/ StartPersistOne("A")
    \/ QueryError("A")
    \/ QueryFound("A")
    \/ QueryNotFound("A")
    \/ CommitOk("A")
    \/ CommitIntegrityError("A")
    \/ CommitError("A")
    \/ Return("A")
    \/ GenerateSummariesInvalid
    \/ GenerateSummariesRespond
    \/ EnrichNoClient
    \/ EnrichStart
    \/ EnrichQueryFails
    \/ EnrichQueryOk
    \/ SummarizeOk
    \/ SummarizeRateLimited
    \/ SummarizeFails
    \/ EmbedArticleOk
    \/ EmbedArticleRateLimited
    \/ EmbedArticleFails
    \/ EnrichCommitOk
    \/ EnrichCommitFails
    \/ EnrichReturn

SpecEnrich == InitEnrich /\ [][NextEnrich]_vars

(* ------------------------------------------------------------------ *)
(* Enrichment runs one after the other, for ever, on a store in which   *)
(* the collaborators fail for some articles on every attempt and        *)
(* succeed for the others on every attempt; the store itself works      *)
(* ------------------------------------------------------------------ *)
\* the articles the collaborators reject every time (say, a content the
\* API refuses)
FailingLinks == {"l1"}
AlwaysFails(row) == row.link \in FailingLinks

\* the stores the runs start from: up to MaxEnrichRows articles in the
\* order they were inserted, each without embedding, with or without
\* summary
RepeatedInitStores ==
    UNION {[1..n -> {None, "sum0"}] : n \in 1..MaxEnrichRows}
StoreOf(summaries) ==
    [i \in 1..Len(summaries) |->
        [new_article(Cand(LinkAt[i], "v1")) EXCEPT !.summary = summaries[i]]]

RepeatedSummarizeOk ==
    /\ epc = "e_summary"
    /\ ~AlwaysFails(store[cur])
    /\ SummarizeOk
RepeatedSummarizeFails ==
    /\ epc = "e_summary"
    /\ AlwaysFails(store[cur])
    /\ SummarizeFails
RepeatedEmbedOk ==
    /\ epc = "e_embed"
    /\ ~AlwaysFails(store[cur])
    /\ EmbedArticleOk
RepeatedEmbedFails ==
    /\ epc = "e_embed"
    /\ AlwaysFails(store[cur])
    /\ EmbedArticleFails

InitRepeated ==
    /\ \E summaries \in RepeatedInitStores : store = StoreOf(summaries)
    /\ client = TRUE
    /\ PersistIdle
    /\ FeedIdle
    /\ SearchIdle
    /\ EnrichIdle
    /\ DigestIdle
    /\ CosIdle

NextRepeated ==
    \/ EnrichStart
    \/ EnrichQueryOk
    \/ RepeatedSummarizeOk
    \/ RepeatedSummarizeFails
    \/ RepeatedEmbedOk
    \/ RepeatedEmbedFails
    \/ EnrichCommitOk
    \/ EnrichReturn
    \/ GenerateSummariesRespond

\* the endpoint is called again and again and every call runs to its end
SpecEnrichRepeated ==
    InitRepeated /\ [][NextRepeated]_vars /\ WF_vars(NextRepeated)

(* ------------------------------------------------------------------ *)
(* Calls of cosine_similarity on their own (search.py)                  *)
(* ------------------------------------------------------------------ *)
\* the arguments: None, the empty list, zero vectors and vectors with an
\* integer norm, of one to three dimensions
CosineArgs ==
    {NoVec, Vec(<<>>),
     Vec(<<0>>), Vec(<<1>>), Vec(<<0 - 1>>), Vec(<<2>>),
     Vec(<<0, 0>>), Vec(<<1, 0>>), Vec(<<0, 1>>), Vec(<<0 - 1, 0>>),
     Vec(<<0, 0 - 2>>), Vec(<<3, 4>>), Vec(<<0 - 3, 0 - 4>>),
     Vec(<<4, 0 - 3>>),
     Vec(<<0, 0, 0>>), Vec(<<1, 0, 0>>), Vec(<<0, 0, 0 - 1>>)}

(* cosine_similarity(vec1, vec2) is called and returns; None reaches the *)
(* function as a value without elements                                  *)
CosineCall ==
    /\ cos_call.pc = "idle"
    /\ \E a \in CosineArgs, b \in CosineArgs :
          cos_call' = [pc |-> "returned", vec1 |-> a, vec2 |-> b,
                       score |-> cosine_similarity(a.v, b.v)]
    /\ UNCHANGED <<persistVars, feedVars, searchVars, enrichVars, digestVars>>

(* the caller has taken the score *)
CosineReturn ==
    /\ cos_call.pc = "returned"
    /\ cos_call' = NoCosCall
    /\ UNCHANGED <<persistVars, feedVars, searchVars, enrichVars, digestVars>>

InitCosine ==
    /\ store = <<>>
    /\ client = TRUE
    /\ PersistIdle
    /\ FeedIdle
    /\ SearchIdle
    /\ EnrichIdle
    /\ DigestIdle
    /\ CosIdle

NextCosine ==
    \/ CosineCall
    \/ CosineReturn

SpecCosine == InitCosine /\ [][NextCosine]_vars

(* ------------------------------------------------------------------ *)
(* POST /api/create-digest and DELETE /api/digest/{date} (main.py)      *)
(* ------------------------------------------------------------------ *)
\* digests created in one behaviour
MaxDigests == 2
\* articles of the last 24 hours a digest is made from
MaxDigestArticles == 1

\* date.today() at the time of a request, or the date of a delete request
Dates == {"d1", "d2"}
\* what create_daily_digest returns when the API answers
DigestContents == {"c1", "c2"}

\* db.query(DigestEntry).filter(DigestEntry.digest_date == d).first()
digest_for(db, d) ==
    LET OfDate(row) == row.digest_date = d
        rows == SelectSeq(db, OfDate)
    IN IF rows = <<>> THEN NoEntry ELSE Entry(rows[1])

\* a table without a unique key on digest_date
no_digest_constraint(db, d) == FALSE

\* digest_date is the unique key of DigestEntry: a second row for the date
\* makes db.commit() raise IntegrityError
digest_unique_violation(db, d) ==
    \E i \in 1..Len(db) : db[i].digest_date = d

\* a handler that always regenerates
never_existing(found) == FALSE

\* if existing_digest: return the stored digest (main.py 309-316)
return_existing(found) == found.has

\* the primary key of the next row
next_digest_id ==
    Cardinality({k \in 1..Len(d_events) : d_events[k].ev = "created"}) + 1

\* db.delete(digest); db.commit(): DELETE ... WHERE id = :id
delete_row(db, id) ==
    LET Other(row) == row.id # id
    IN SelectSeq(db, Other)

\* the request p ends with this response
DigestResponse(p, req, status, outcome) ==
    /\ d_req' = [d_req EXCEPT ![p] = [req EXCEPT !.status = status,
                                                 !.outcome = outcome]]
    /\ dpc' = [dpc EXCEPT ![p] = "d_done"]

DigestOthers == UNCHANGED <<persistVars, feedVars, searchVars, enrichVars,
                            cosVars>>

(* create: the digest of today exists and is returned as it is *)
CreateDigestExisting(p) ==
    /\ dpc[p] = "idle"
    /\ \E today \in Dates :
          LET found == digest_for(digests, today)
          IN /\ return_existing(found)
             /\ DigestResponse(p, [NoDigestRequest EXCEPT
                                      !.op = "create", !.date = today,
                                      !.had_entry = found.has, !.found = found,
                                      !.digest = found.content,
                                      !.article_count = found.article_count],
                               200, "exists")
    /\ UNCHANGED <<digests, d_events>>
    /\ DigestOthers

(* create: the query for the digest of today raises: rollback, 500 *)
CreateDigestCheckFails(p) ==
    /\ dpc[p] = "idle"
    /\ \E today \in Dates :
          DigestResponse(p, [NoDigestRequest EXCEPT
                                !.op = "create", !.date = today,
                                !.had_entry = digest_for(digests, today).has],
                         500, "error")
    /\ UNCHANGED <<digests, d_events>>
    /\ DigestOthers

(* create: there is no digest of today; the articles are fetched next *)
CreateDigestAbsent(p) ==
    /\ dpc[p] = "idle"
    /\ \E today \in Dates :
          LET found == digest_for(digests, today)
          IN /\ ~return_existing(found)
             /\ d_req' = [d_req EXCEPT ![p] =
                             [NoDigestRequest EXCEPT
                                 !.op = "create", !.date = today,
                                 !.had_entry = found.has, !.found = found]]
    /\ dpc' = [dpc EXCEPT ![p] = "d_articles"]
    /\ UNCHANGED <<digests, d_events>>
    /\ DigestOthers

(* create: no article of the last 24 hours: 404 *)
CreateDigestNoArticles(p) ==
    /\ dpc[p] = "d_articles"
    /\ DigestResponse(p, d_req[p], 404, "no_articles")
    /\ UNCHANGED <<digests, d_events>>
    /\ DigestOthers

(* create: the articles query raises: rollback, 500 *)
CreateDigestArticlesFail(p) ==
    /\ dpc[p] = "d_articles"
    /\ DigestResponse(p, d_req[p], 500, "error")
    /\ UNCHANGED <<digests, d_events>>
    /\ DigestOthers

(* create: the articles of the last 24 hours *)
CreateDigestArticles(p) ==
    /\ dpc[p] = "d_articles"
    /\ \E n \in 1..MaxDigestArticles :
          d_req' = [d_req EXCEPT ![p].article_count = n]
    /\ dpc' = [dpc EXCEPT ![p] = "d_generate"]
    /\ UNCHANGED <<digests, d_events>>
    /\ DigestOthers

(* create_daily_digest without a client raises before any API call: 500 *)
GenerateDigestNoClient(p) ==
    /\ dpc[p] = "d_generate"
    /\ ~client
    /\ DigestResponse(p, d_req[p], 500, "error")
    /\ UNCHANGED <<digests, d_events>>
    /\ DigestOthers

(* create_daily_digest: the chat API answers *)
GenerateDigestOk(p) ==
    /\ dpc[p] = "d_generate"
    /\ client
    /\ \E c \in DigestContents :
          d_req' = [d_req EXCEPT ![p].content = c, ![p].calls = @ + 1]
    /\ dpc' = [dpc EXCEPT ![p] = "d_commit"]
    /\ UNCHANGED <<digests, d_events>>
    /\ DigestOthers

(* create_daily_digest: the chat API fails: 500 *)
GenerateDigestFails(p) ==
    /\ dpc[p] = "d_generate"
    /\ client
    /\ DigestResponse(p, [d_req[p] EXCEPT !.calls = @ + 1], 500, "error")
    /\ UNCHANGED <<digests, d_events>>
    /\ DigestOthers

(* create: db.add(digest_entry); db.commit(); the digest is returned *)
CreateDigestCommitOk(p) ==
    /\ dpc[p] = "d_commit"
    /\ next_digest_id <= MaxDigests
    /\ ~digest_unique_violation(digests, d_req[p].date)
    /\ LET row == [id |-> next_digest_id, digest_date |-> d_req[p].date,
                   content |-> d_req[p].content,
                   article_count |-> d_req[p].article_count]
       IN /\ digests' = Append(digests, row)
          /\ d_events' = Append(d_events,
                                [ev |-> "created", id |-> row.id,
                                 digest_date |-> row.digest_date])
    /\ DigestResponse(p, [d_req[p] EXCEPT !.digest = d_req[p].content],
                      200, "created")
    /\ DigestOthers

(* create: db.commit() raises IntegrityError: rollback, 500 *)
CreateDigestCommitIntegrityError(p) ==
    /\ dpc[p] = "d_commit"
    /\ digest_unique_violation(digests, d_req[p].date)
    /\ DigestResponse(p, d_req[p], 500, "integrity")
    /\ UNCHANGED <<digests, d_events>>
    /\ DigestOthers

(* create: db.commit() raises otherwise: rollback, 500 *)
CreateDigestCommitFails(p) ==
    /\ dpc[p] = "d_commit"
    /\ DigestResponse(p, d_req[p], 500, "error")
    /\ UNCHANGED <<digests, d_events>>
    /\ DigestOthers

(* delete: the date does not parse: 400 *)
DeleteDigestBadDate(p) ==
    /\ dpc[p] = "idle"
    /\ DigestResponse(p, [NoDigestRequest EXCEPT !.op = "delete"],
                      400, "bad_date")
    /\ UNCHANGED <<digests, d_events>>
    /\ DigestOthers

(* delete: no digest for the date: 404 *)
DeleteDigestNotFound(p) ==
    /\ dpc[p] = "idle"
    /\ \E d \in Dates :
          /\ ~digest_for(digests, d).has
          /\ DigestResponse(p, [NoDigestRequest EXCEPT
                                   !.op = "delete", !.date = d],
                            404, "not_found")
    /\ UNCHANGED <<digests, d_events>>
    /\ DigestOthers

(* delete: the query raises: rollback, 500 *)
DeleteDigestCheckFails(p) ==
    /\ dpc[p] = "idle"
    /\ \E d \in Dates :
          DigestResponse(p, [NoDigestRequest EXCEPT
                                !.op = "delete", !.date = d,
                                !.had_entry = digest_for(digests, d).has],
                         500, "error")
    /\ UNCHANGED <<digests, d_events>>
    /\ DigestOthers

(* delete: the digest of the date is found *)
DeleteDigestFound(p) ==
    /\ dpc[p] = "idle"
    /\ \E d \in Dates :
          LET found == digest_for(digests, d)
          IN /\ found.has
             /\ d_req' = [d_req EXCEPT ![p] =
                             [NoDigestRequest EXCEPT
                                 !.op = "delete", !.date = d,
                                 !.had_entry = found.has, !.found = found]]
    /\ dpc' = [dpc EXCEPT ![p] = "d_delete"]
    /\ UNCHANGED <<digests, d_events>>
    /\ DigestOthers

(* delete: db.delete(digest); db.commit() *)
DeleteDigestCommitOk(p) ==
    /\ dpc[p] = "d_delete"
    /\ digests' = delete_row(digests, d_req[p].found.id)
    /\ d_events' =
          IF delete_row(digests, d_req[p].found.id) # digests
          THEN Append(d_events,
                      [ev |-> "deleted", id |-> d_req[p].found.id,
                       digest_date |-> d_req[p].found.digest_date])
          ELSE d_events
    /\ DigestResponse(p, d_req[p], 200, "deleted")
    /\ DigestOthers

(* delete: db.commit() raises: rollback, 500 *)
DeleteDigestCommitFails(p) ==
    /\ dpc[p] = "d_delete"
    /\ DigestResponse(p, d_req[p], 500, "error")
    /\ UNCHANGED <<digests, d_events>>
    /\ DigestOthers

(* the response has been sent *)
DigestRespond(p) ==
    /\ dpc[p] = "d_done"
    /\ dpc' = [dpc EXCEPT ![p] = "idle"]
    /\ d_req' = [d_req EXCEPT ![p] = NoDigestRequest]
    /\ UNCHANGED <<digests, d_events>>
    /\ DigestOthers

InitDigest ==
    /\ store = <<>>
    /\ client \in BOOLEAN
    /\ PersistIdle
    /\ FeedIdle
    /\ SearchIdle
    /\ EnrichIdle
    /\ DigestIdle
    /\ CosIdle

NextDigest ==
    \E p \in DigestRequests :
        \/ CreateDigestExisting(p)
        \/ CreateDigestCheckFails(p)
        \/ CreateDigestAbsent(p)
        \/ CreateDigestNoArticles(p)
        \/ CreateDigestArticlesFail(p)
        \/ CreateDigestArticles(p)
        \/ GenerateDigestNoClient(p)
        \/ GenerateDigestOk(p)
        \/ GenerateDigestFails(p)
        \/ CreateDigestCommitOk(p)
        \/ CreateDigestCommitIntegrityError(p)
        \/ CreateDigestCommitFails(p)
        \/ DeleteDigestBadDate(p)
        \/ DeleteDigestNotFound(p)
        \/ DeleteDigestCheckFails(p)
        \/ DeleteDigestFound(p)
        \/ DeleteDigestCommitOk(p)
        \/ DeleteDigestCommitFails(p)
        \/ DigestRespond(p)

SpecDigest == InitDigest /\ [][NextDigest]_vars

(* ------------------------------------------------------------------ *)
(* Sequential persist calls on one session                              *)
(* ------------------------------------------------------------------ *)
Init ==
    /\ store = <<>>
    /\ PersistIdle
    /\ FeedIdle
    /\ SearchIdle
    /\ EnrichIdle
    /\ DigestIdle
    /\ CosIdle
    /\ client = TRUE

Next ==
    \E p \in {"A"} :
        \/ StartPersist(p)
        \/ RepeatPersist(p)
        \/ QueryError(p)
        \/ QueryFound(p)
        \/ QueryNotFound(p)
        \/ CommitOk(p)
        \/ CommitIntegrityError(p)
        \/ CommitError(p)
        \/ Return(p)

Spec == Init /\ [][Next]_vars

(* ------------------------------------------------------------------ *)
(* Two overlapping persist runs, each on its own session                *)
(* ------------------------------------------------------------------ *)
ConcInitStores == {<<>>, <<new_article(Cand("l1", "v1"))>>}

InitConc ==
    /\ store \in ConcInitStores
    /\ PersistIdle
    /\ FeedIdle
    /\ SearchIdle
    /\ EnrichIdle
    /\ DigestIdle
    /\ CosIdle
    /\ client = TRUE

NextConc ==
    \E p \in Runs :
        \/ StartConcurrent(p)
        \/ QueryError(p)
        \/ QueryFound(p)
        \/ QueryNotFound(p)
        \/ CommitOk(p)
        \/ CommitIntegrityError(p)
        \/ CommitError(p)

SpecConc == InitConc /\ [][NextConc]_vars

(* ------------------------------------------------------------------ *)
(* Properties of save_articles_to_db                                    *)
(* ------------------------------------------------------------------ *)
LinksOf(sq) == {sq[i].link : i \in 1..Len(sq)}
RowsWith(db, l) == {i \in 1..Len(db) : db[i].link = l}
\* the rows the store gained since the call of p started
AddedRows(p) == (Len(store0[p]) + 1)..Len(store)
FirstPos(b, l) ==
    CHOOSE i \in 1..Len(b) : b[i].link = l /\ \A j \in 1..(i - 1) : b[j].link # l
\* the links that several candidates of the batch of p carry
Dups(p) ==
    {l \in LinksOf(articles[p]) :
        Cardinality({i \in 1..Len(articles[p]) : articles[p][i].link = l}) >= 2}
\* what happened to the candidate of link l in the call of p
OutcomeOf(p, l) ==
    IF \E i \in 1..Len(log[p]) : log[p][i].link = l
    THEN log[p][CHOOSE i \in 1..Len(log[p]) : log[p][i].link = l].outcome
    ELSE "none"
Raised(p) == pc[p] = "raised"

\* C1: the article store never holds two articles with the same link,
\* whatever persist calls ran, one after the other or overlapping.
C1_LinkUnique ==
    \A i, j \in 1..Len(store) : store[i].link = store[j].link => i = j

\* C1 witness: a link was offered by both runs, one of them stored it and
\* the other was refused by the store
C1_Witness ==
    \E p, q \in Runs, l \in Links :
        /\ p # q /\ pc[p] = "done" /\ pc[q] = "done"
        /\ OutcomeOf(p, l) = "saved"
        /\ OutcomeOf(q, l) = "duplicate"
        /\ RowsWith(store, l) # {}

\* C2 (as claimed): persisting the same candidate list again right after
\* a call returned adds nothing: it returns 0, does not raise and leaves
\* the store as the first call left it.
C2_RepeatIsNoOp ==
    \A p \in Runs :
        kind[p] \in {"after_clean", "after_failed"} =>
            /\ ~Raised(p)
            /\ store = store0[p]
            /\ pc[p] = "done" => return_value(p) = 0

\* C2 (amended): the same, when no query or insert of the first call failed.
C2_RepeatAfterCleanIsNoOp ==
    \A p \in Runs :
        kind[p] = "after_clean" =>
            /\ ~Raised(p)
            /\ store = store0[p]
            /\ pc[p] = "done" => return_value(p) = 0

\* C2 witness: the repeated call has returned and its batch carried other
\* field values for a stored link
C2_Witness ==
    \E p \in Runs :
        /\ kind[p] = "after_clean" /\ pc[p] = "done"
        /\ \E i \in 1..Len(articles[p]), k \in 1..Len(store) :
              /\ store[k].link = articles[p][i].link
              /\ store[k] # new_article(articles[p][i])

\* the rows a call added are in the order their links first appear in the batch
FirstSeenOrder(p) ==
    \A i, j \in AddedRows(p) :
        i < j => FirstPos(articles[p], store[i].link)
                    < FirstPos(articles[p], store[j].link)

\* C3 (as claimed): for a link that several candidates of the batch carry,
\* once the call returned exactly one article with that link is stored, with
\* the fields of the first such candidate; added rows are in first-seen order.
C3_FirstCandidateStored ==
    \A p \in Runs :
        (pc[p] = "done" /\ kind[p] # "concurrent") =>
            /\ \A l \in Dups(p) :
                  /\ Cardinality(RowsWith(store, l)) = 1
                  /\ \A k \in RowsWith(store, l) :
                        store[k] = new_article(articles[p][FirstPos(articles[p], l)])
            /\ FirstSeenOrder(p)

\* C3 (amended): for such a link at most one article is stored; the call
\* adds one exactly when the link was not stored before and neither the query
\* nor the insert failed, and a row it adds has the fields of the first such
\* candidate; added rows are in first-seen order.
C3_FirstCandidateStoredIfNew ==
    \A p \in Runs :
        (pc[p] = "done" /\ kind[p] # "concurrent") =>
            /\ \A l \in Dups(p) :
                  /\ Cardinality(RowsWith(store, l)) <= 1
                  /\ \A k \in AddedRows(p) :
                        store[k].link = l =>
                            store[k] = new_article(articles[p][FirstPos(articles[p], l)])
                  /\ (\E k \in AddedRows(p) : store[k].link = l)
                        <=> (/\ l \notin LinksOf(store0[p])
                             /\ OutcomeOf(p, l) \notin FailureOutcomes)
            /\ FirstSeenOrder(p)

\* C3 witness: a call stored a link that two candidates with different
\* fields carried, and another link after it
C3_Witness ==
    \E p \in Runs, l \in Links :
        /\ pc[p] = "done" /\ l \in Dups(p)
        /\ \E i, j \in 1..Len(articles[p]) :
              /\ articles[p][i].link = l /\ articles[p][j].link = l
              /\ articles[p][i] # articles[p][j]
        /\ \E k, m \in AddedRows(p) : k < m /\ store[k].link = l

\* C4: with no concurrent writer, the value a call returns is the number of
\* rows it added, which is the number of distinct links of the batch that
\* were not stored before and are stored now.
C4_ReturnsInsertedCount ==
    \A p \in Runs :
        (pc[p] = "done" /\ kind[p] # "concurrent") =>
            /\ return_value(p) = Len(store) - Len(store0[p])
            /\ return_value(p) =
                  Cardinality({l \in LinksOf(articles[p]) :
                                  l \notin LinksOf(store0[p]) /\ l \in LinksOf(store)})

\* C4 witness: a call returned less than its candidate count because one
\* link was a duplicate in the batch, one was stored already or failed
C4_Witness ==
    \E p \in Runs :
        /\ pc[p] = "done"
        /\ return_value(p) >= 1
        /\ return_value(p) < Len(unique_articles[p])
        /\ Len(unique_articles[p]) < Len(articles[p])

\* C5: a candidate whose query or insert fails does not make the call raise
\* and is not stored; what the call committed before it stays stored, and
\* every later candidate is still stored (unless it fails itself) and counted.
C5_FailureIsolated ==
    \A p \in Runs :
        /\ ~Raised(p)
        /\ (pc[p] = "done" /\ kind[p] # "concurrent") =>
              \A i \in Failed(log[p]) :
                  /\ \A k \in AddedRows(p) : store[k].link # unique_articles[p][i].link
                  /\ \A j \in 1..(i - 1) :
                        log[p][j].outcome = "saved" =>
                            \E k \in AddedRows(p) :
                                store[k] = new_article(unique_articles[p][j])
                  /\ \A j \in (i + 1)..Len(unique_articles[p]) :
                        \/ j \in Failed(log[p])
                        \/ unique_articles[p][j].link \in LinksOf(store)
                  /\ return_value(p) = Len(store) - Len(store0[p])

\* C5 witness: a call stored a candidate, failed on the next one and stored
\* the one after it
C5_Witness ==
    \E p \in Runs :
        /\ pc[p] = "done" /\ Len(log[p]) = 3
        /\ log[p][1].outcome = "saved"
        /\ log[p][2].outcome \in FailureOutcomes
        /\ log[p][3].outcome = "saved"
        /\ return_value(p) = 2

BothDone == \A p \in Runs : pc[p] = "done" /\ kind[p] = "concurrent"
Min(a, b) == IF a <= b THEN a ELSE b
InitLen == Min(Len(store0["A"]), Len(store0["B"]))
Shared == LinksOf(unique_articles["A"]) \cap LinksOf(unique_articles["B"])
\* the rows that carry the field values run p fetched
RowsBy(p) ==
    {k \in (InitLen + 1)..Len(store) :
        store[k].title = Cand("l1", RunVersion(p)).title}

\* what C6 says besides the number of rows of the shared link
C6_LoserSkips(l) ==
    \A p \in Runs :
        /\ ~Raised(p)
        /\ return_value(p) = Cardinality(RowsBy(p))
        /\ OutcomeOf(p, l) \in {"exists", "duplicate"} =>
              \A k \in RowsBy(p) : store[k].link # l

\* C6 (as claimed): when two overlapping runs share a link, the store ends
\* with exactly one article for it, neither run raises, the run that lost
\* does not count the link and still stores the other links of its batch.
C6_RaceContained ==
    BothDone =>
        \A l \in Shared :
            /\ Cardinality(RowsWith(store, l)) = 1
            /\ C6_LoserSkips(l)
            /\ \A p \in Runs : LinksOf(unique_articles[p]) \subseteq LinksOf(store)

\* C6 (amended): at most one article for the shared link, and exactly one
\* unless each run's attempt on it failed for another reason than the race;
\* neither run raises, the loser does not count the link, and every other
\* candidate of its batch is stored unless its own query or insert failed.
C6_RaceContainedUnlessFailed ==
    BothDone =>
        \A l \in Shared :
            /\ Cardinality(RowsWith(store, l)) <= 1
            /\ (\E p \in Runs : OutcomeOf(p, l) \notin {"integrity", "error"})
                  => Cardinality(RowsWith(store, l)) = 1
            /\ C6_LoserSkips(l)
            /\ \A p \in Runs : \A i \in 1..Len(unique_articles[p]) :
                  \/ i \in Failed(log[p]) /\ log[p][i].outcome # "duplicate"
                  \/ unique_articles[p][i].link \in LinksOf(store)

\* C6 witness: both runs passed the existence check for the shared link, one
\* commit was refused, and the refused run stored another link afterwards
C6_Witness ==
    /\ BothDone
    /\ \E p \in Runs, l \in Shared, m \in Links :
          /\ OutcomeOf(p, l) = "duplicate"
          /\ m # l /\ OutcomeOf(p, m) = "saved"
          /\ FirstPos(unique_articles[p], l) < FirstPos(unique_articles[p], m)

(* ------------------------------------------------------------------ *)
(* Properties of the feed parser                                        *)
(* ------------------------------------------------------------------ *)
SingleDone == fpc = "single_done"
AllDone == fpc = "all_done"

HasLink(e) == e.link.has /\ e.link.v # ""
Extractable(e) == HasLink(e) /\ ~e.broken

\* the first n entries of the feed, none when n is negative
FirstEntries(es, n) ==
    IF n <= 0 THEN <<>> ELSE SubSeq(es, 1, Min(n, Len(es)))
\* the entries the call looks at: the first n, or all but the last -n
Considered(es, n) ==
    IF n >= 0 THEN FirstEntries(es, n)
    ELSE IF Len(es) + n > 0 THEN SubSeq(es, 1, Len(es) + n) ELSE <<>>
\* the entries of the call that carry a link and do not raise
Kept == SelectSeq(Considered(feed_in.entries, max_in), Extractable)

\* out is made of candidates of entries of es, in the order of es
IsOrderedPick(out, es) ==
    \E f \in [1..Len(out) -> 1..Len(es)] :
        /\ \A i, j \in 1..Len(out) : i < j => f[i] < f[j]
        /\ \A k \in 1..Len(out) :
              /\ es[f[k]].link.has
              /\ out[k].link = es[f[k]].link.v
              /\ out[k].title =
                    (IF es[f[k]].title.has THEN es[f[k]].title.v ELSE "No title")

\* the normalised content of each entry of the pool
CleanOf == [e \in EntryPool |-> clean_html(raw_content(e))]

RECURSIVE Flatten(_)
Flatten(ss) == IF ss = <<>> THEN <<>> ELSE Head(ss) \o Flatten(Tail(ss))

\* what a source of the run contributed
Contribution(k) ==
    parse_single_feed(fetched[k].url, fetched[k].feed, MAX_ARTICLES_PER_FEED)

(* C7: when parse_all_feeds has gone through the configured sources, every
   source was fetched, in configuration order; a source whose fetch raised
   contributed no candidate, and the result is the candidates of the
   sources, source after source in configuration order. *)
C7_SourcesIsolated ==
    AllDone =>
        /\ Len(fetched) = Len(RSS_FEEDS)
        /\ \A k \in 1..Len(fetched) :
              /\ fetched[k].url = RSS_FEEDS[k]
              /\ fetched[k].feed.raises => Contribution(k) = <<>>
              /\ \A i \in 1..Len(Contribution(k)) :
                    Contribution(k)[i].source = extract_source_name(RSS_FEEDS[k])
        /\ all_articles = Flatten([k \in 1..Len(fetched) |-> Contribution(k)])

\* the second source raised, the first and the third contributed candidates,
\* the third although one of its entries raised
C7_Witness ==
    /\ AllDone
    /\ Len(fetched) = 3
    /\ fetched[2].feed.raises
    /\ fetched[3].feed.entries = <<E_broken, E_sumempty>>
    /\ Contribution(1) # <<>>
    /\ Contribution(3) # <<>>
    /\ all_articles = Contribution(1) \o Contribution(3)

(* C8 as stated, max_items being a count (0 or more): for every feed and
   every max_items, parse_single_feed returns at most max_items candidates,
   all of them from the first max_items entries and in their order, and
   exactly max_items when the feed has at least max_items entries that all
   carry a link. *)
C8_Capped ==
    SingleDone /\ max_in >= 0 =>
        /\ Len(psf_out) <= max_in
        /\ IsOrderedPick(psf_out, FirstEntries(feed_in.entries, max_in))
        /\ (/\ Len(feed_in.entries) >= max_in
            /\ \A i \in 1..Len(feed_in.entries) : HasLink(feed_in.entries[i]))
           => Len(psf_out) = max_in

(* C8, amended: the candidates returned come, in order, from the entries
   the call considers: the first max_items entries when max_items >= 0 (so
   at most max_items candidates), all but the last -max_items entries when
   max_items is negative; there is exactly one candidate per considered
   entry when each of them carries a link and is extracted without error,
   so exactly max_items candidates when max_items >= 0 and the feed has at
   least max_items such entries at its head. *)
C8_CappedForValidEntries ==
    SingleDone =>
        LET considered == Considered(feed_in.entries, max_in)
        IN /\ max_in >= 0 => Len(psf_out) <= max_in
           /\ IsOrderedPick(psf_out, considered)
           /\ (\A i \in 1..Len(considered) : Extractable(considered[i]))
              => Len(psf_out) = Len(considered)
           /\ (/\ max_in >= 0
               /\ Len(feed_in.entries) >= max_in
               /\ \A i \in 1..max_in : Extractable(feed_in.entries[i]))
              => Len(psf_out) = max_in

\* a feed of three extractable entries read with max_items = 2
C8_Witness ==
    /\ SingleDone
    /\ max_in = 2
    /\ Len(feed_in.entries) = 3
    /\ \A i \in 1..3 : Extractable(feed_in.entries[i])
    /\ Len(psf_out) = 2
    /\ psf_out[1].link = feed_in.entries[1].link.v
    /\ psf_out[2].link = feed_in.entries[2].link.v

(* C9: no candidate comes from an entry without a link or with an empty
   link, and every other entry the call considers that is extracted without
   error yields its candidate, in order. *)
C9_NoLinkDiscarded ==
    SingleDone =>
        /\ \A k \in 1..Len(psf_out) : psf_out[k].link # ""
        /\ Len(psf_out) = Len(Kept)
        /\ IsOrderedPick(psf_out, Kept)

\* an entry without link, one with an empty link, and one extracted after them
C9_Witness ==
    /\ SingleDone
    /\ max_in = 3
    /\ feed_in.entries = <<E_nolink, E_emptylink, E_plain>>
    /\ Len(psf_out) = 1
    /\ psf_out[1].link = "l1"

(* C10: the content of a candidate is the normalised content of its entry
   when that has 250 characters or fewer, and otherwise its first 250
   characters followed by "...": 253 characters at most. *)
C10_ContentTruncated ==
    SingleDone =>
        /\ Len(psf_out) = Len(Kept)
        /\ \A k \in 1..Len(psf_out) :
              LET clean == CleanOf[Kept[k]]
                  content == psf_out[k].content
              IN /\ Len(content) <= 253
                 /\ Len(clean) <= 250 => content = clean
                 /\ Len(clean) > 250 =>
                       /\ content = SubSeq(clean, 1, 250) \o <<".", ".", ".">>
                       /\ Len(content) = 253

\* one candidate cut from 251 characters, one kept whole at 250 characters
C10_Witness ==
    /\ SingleDone
    /\ \E k \in 1..Len(psf_out) :
          /\ k <= Len(Kept)
          /\ Len(CleanOf[Kept[k]]) = 251
          /\ Len(psf_out[k].content) = 253
          /\ SubSeq(psf_out[k].content, 251, 253) = <<".", ".", ".">>
    /\ \E k \in 1..Len(psf_out) :
          /\ k <= Len(Kept)
          /\ Len(CleanOf[Kept[k]]) = 250
          /\ psf_out[k].content = CleanOf[Kept[k]]

(* ------------------------------------------------------------------ *)
(* Properties of semantic_search                                        *)
(* ------------------------------------------------------------------ *)
SearchDone == spc = "s_done"
OnlyWhitespace(query) == \A i \in 1..Len(query) : query[i] \in Whitespace
Scorable(row) == row.embedding.has /\ row.embedding.v # <<>>
ScoreOf(row) == cosine_similarity(query_embedding, row.embedding.v)

(* C11: a search with an empty or whitespace-only query returns the empty
   list, and neither generate_embedding nor the articles table was called
   during the call. *)
C11_BlankQueryNoCalls ==
    SearchDone /\ OnlyWhitespace(s_query) =>
        /\ s_result = <<>>
        /\ s_outcome = "blank"
        /\ embed_calls = 0
        /\ store_queries = 0

\* a whitespace-only query on a store that holds a scorable article
C11_Witness ==
    /\ SearchDone
    /\ s_query = <<" ", "\t">>
    /\ \E i \in 1..Len(store) : Scorable(store[i])
    /\ s_result = <<>>
    /\ embed_calls = 0

(* C12: every (article, score) pair a search returns has score >=
   min_similarity, the article is a stored article, and the score is the
   similarity of the query embedding with the embedding stored for it. *)
C12_ScoresAboveThreshold ==
    SearchDone =>
        \A k \in 1..Len(s_result) :
            /\ s_result[k].score >= s_min
            /\ \E i \in 1..Len(store) : store[i] = s_result[k].article
            /\ s_result[k].score = ScoreOf(s_result[k].article)

\* one article returned at the threshold 0.65, another one scored below it
C12_Witness ==
    /\ SearchDone
    /\ s_min = 65
    /\ s_limit = MaxStore
    /\ Len(s_result) = 1
    /\ \E i \in 1..Len(store) :
          Scorable(store[i]) /\ ScoreOf(store[i]) < 65 /\ ScoreOf(store[i]) > 0

(* C13: the results of a search are in descending order of score: each
   result's score is at least the score of the next one. *)
C13_SortedDescending ==
    SearchDone =>
        \A k \in 1..(Len(s_result) - 1) :
            s_result[k].score >= s_result[k + 1].score

\* three results with three scores, stored in ascending order of score
C13_Witness ==
    /\ SearchDone
    /\ Len(store) = 3
    /\ \A i \in 1..3 : Scorable(store[i])
    /\ ScoreOf(store[1]) < ScoreOf(store[2])
    /\ ScoreOf(store[2]) < ScoreOf(store[3])
    /\ s_result = <<[article |-> store[3], score |-> ScoreOf(store[3])],
                    [article |-> store[2], score |-> ScoreOf(store[2])],
                    [article |-> store[1], score |-> ScoreOf(store[1])]>>

\* the stored articles that qualify, and their place in the ranking: by
\* score descending, articles of equal score in the order of the store
Qualifying == {i \in 1..Len(store) : Scorable(store[i]) /\ ScoreOf(store[i]) >= s_min}
RankOf(i) ==
    1 + Cardinality({j \in Qualifying :
                        \/ ScoreOf(store[j]) > ScoreOf(store[i])
                        \/ ScoreOf(store[j]) = ScoreOf(store[i]) /\ j < i})
Ranked ==
    [k \in 1..Cardinality(Qualifying) |->
        LET i == CHOOSE j \in Qualifying : RankOf(j) = k
        IN [article |-> store[i], score |-> ScoreOf(store[i])]]

(* C14: a search that completes with a limit (a count, 0 or more) returns
   at most limit results, and they are the first limit elements of the
   sequence of all scorable articles with score >= min_similarity, ordered
   by score descending. *)
C14_TopLimit ==
    SearchDone /\ s_outcome = "ok" /\ s_limit >= 0 =>
        /\ Len(s_result) <= s_limit
        /\ s_result = SubSeq(Ranked, 1, Min(s_limit, Len(Ranked)))

\* limit 1 on three qualifying articles, the best of them stored last
C14_Witness ==
    /\ SearchDone
    /\ s_outcome = "ok"
    /\ s_limit = 1
    /\ s_min = 0
    /\ Cardinality(Qualifying) = 3
    /\ ScoreOf(store[3]) > ScoreOf(store[1])
    /\ ScoreOf(store[3]) > ScoreOf(store[2])
    /\ s_result = <<[article |-> store[3], score |-> ScoreOf(store[3])]>>

(* C15: an article whose embedding is absent or empty is in no search
   result, whatever the query, the limit and min_similarity (0 included). *)
C15_UnembeddedNeverReturned ==
    SearchDone =>
        \A k \in 1..Len(s_result) : Scorable(s_result[k].article)

\* min_similarity 0 on a store with an absent, an empty and a real embedding
C15_Witness ==
    /\ SearchDone
    /\ s_outcome = "ok"
    /\ s_min = 0
    /\ s_limit = 3
    /\ Len(store) = 3
    /\ store[1].embedding = NoVec
    /\ store[2].embedding = Vec(<<>>)
    /\ Scorable(store[3])
    /\ Len(s_result) = 1
    /\ s_result[1].article = store[3]

(* C16: a search never leaves a failure to its caller: when
   generate_embedding raises or returns nothing, or when the query on the
   store raises, the search returns the empty list. *)
C16_NeverPropagates ==
    SearchDone =>
        /\ s_outcome # "raised"
        /\ s_outcome \in {"no_embedding", "error"} => s_result = <<>>

\* the query on a store with scorable articles raised
C16_Witness ==
    /\ SearchDone
    /\ s_outcome = "error"
    /\ store_queries = 1
    /\ \E i \in 1..Len(store) : Scorable(store[i])
    /\ s_result = <<>>

(* ------------------------------------------------------------------ *)
(* Properties of process_new_articles                                   *)
(* ------------------------------------------------------------------ *)
EnrichDone == epc = "e_done"
RateLimitEvents == {"summary_rate_limit", "embed_rate_limit"}
OtherFailureEvents == {"summary_error", "embed_error", "commit_error"}
SummaryAbsent(row) == row.summary \in {None, ""}
EmbeddingAbsent(row) == ~row.embedding.has \/ row.embedding.v = <<>>
\* the events of the run that concern the article at store position i
EventsOf(i) == {k \in 1..Len(e_log) : e_log[k].i = i}
\* the place of the article at store position i in the selection
SelPos(i) == CHOOSE j \in 1..Len(selected) : selected[j] = i

(* C17 as stated: once a collaborator fails with a rate-limit error on an
   article, nothing more happens in that run: no later collaborator call
   and no later commit, so the rate-limit failure is the last event. *)
C17_RateLimitStopsRun ==
    \A k \in 1..Len(e_log) :
        e_log[k].ev \in RateLimitEvents => k = Len(e_log)

(* C18: a failure other than a rate limit on one article is isolated: the
   articles the run committed before are enriched in the store, the articles
   the run did not commit are as they were, and when the run ends every
   article selected after the failed one was processed. *)
C18_FailureIsolated ==
    /\ \A k \in 1..Len(e_log) :
          e_log[k].ev = "committed" =>
              /\ ~SummaryAbsent(store[e_log[k].i])
              /\ ~EmbeddingAbsent(store[e_log[k].i])
    /\ epc # "idle" =>
          \A i \in 1..Len(store) :
              (\A k \in EventsOf(i) : e_log[k].ev # "committed")
              => store[i] = e_store0[i]
    /\ EnrichDone =>
          \A k \in 1..Len(e_log) :
              e_log[k].ev \in OtherFailureEvents =>
                  \A j \in (SelPos(e_log[k].i) + 1)..Len(selected) :
                      EventsOf(selected[j]) # {}

\* three articles: the first committed, the embedding of the second failed,
\* the third committed
C18_Witness ==
    /\ EnrichDone
    /\ selected = <<1, 2, 3>>
    /\ \E k \in EventsOf(1) : e_log[k].ev = "committed"
    /\ \E k \in EventsOf(2) : e_log[k].ev = "embed_error"
    /\ \E k \in EventsOf(3) : e_log[k].ev = "committed"
    /\ ~SummaryAbsent(store[1]) /\ ~EmbeddingAbsent(store[1])
    /\ SummaryAbsent(store[2]) /\ EmbeddingAbsent(store[2])
    /\ ~SummaryAbsent(store[3]) /\ ~EmbeddingAbsent(store[3])
    /\ processed_count = 2

(* C19: an article whose processing failed in a run has the summary and
   the embedding it had when the run started; a summary generated before
   the embedding call failed is not stored. *)
C19_FailedArticleUnchanged ==
    \A k \in 1..Len(e_log) :
        e_log[k].ev \in RateLimitEvents \cup OtherFailureEvents =>
            /\ store[e_log[k].i].summary = e_store0[e_log[k].i].summary
            /\ store[e_log[k].i].embedding = e_store0[e_log[k].i].embedding

\* the summary of an article was generated, then its embedding call failed
C19_Witness ==
    /\ EnrichDone
    /\ Len(e_log) = 2
    /\ e_log[1] = [i |-> 1, ev |-> "summary_ok"]
    /\ e_log[2] = [i |-> 1, ev |-> "embed_error"]
    /\ store[1].summary = None
    /\ store[1].embedding = NoVec

\* one step of a persist or enrich run, as it affects the stored fields
C20_Step ==
    /\ Len(store') >= Len(store)
    /\ \A i \in 1..Len(store) :
          /\ store'[i].link = store[i].link
          /\ store'[i].summary # store[i].summary =>
                SummaryAbsent(store[i]) /\ ~SummaryAbsent(store'[i])
          /\ store'[i].embedding # store[i].embedding =>
                EmbeddingAbsent(store[i]) /\ ~EmbeddingAbsent(store'[i])
    /\ Len(e_log') > Len(e_log) =>
          LET e == e_log'[Len(e_log')]
          IN /\ e.ev \in {"summary_ok", "summary_rate_limit", "summary_error"}
                   => SummaryAbsent(store[e.i])
             /\ e.ev \in {"embed_ok", "embed_rate_limit", "embed_error"}
                   => EmbeddingAbsent(store[e.i])

(* C20: over the persist and enrich runs, the stored summary of an article
   changes only from absent to present and so does its stored embedding: a
   present field is never changed or cleared, and no collaborator is called
   for a field that is present. *)
C20_EnrichedOnce == [][C20_Step]_vars

\* an article that had its summary got its embedding in a run that made no
\* summary call, and a persist run of its link left both in place
C20_Witness ==
    /\ store # <<>>
    /\ store[1].summary = "sum0"
    /\ ~EmbeddingAbsent(store[1])
    /\ pc["A"] = "done"
    /\ Len(log["A"]) = 1
    /\ log["A"][1].link = "l1"
    /\ log["A"][1].outcome = "exists"

\* the store positions the run selected
Selected == {selected[j] : j \in 1..Len(selected)}
\* what the selection is meant to pick up
Lacking(row) == SummaryAbsent(row) \/ ~row.embedding.has
\* the store positions with an event in the run
Touched == {e_log[k].i : k \in 1..Len(e_log)}
\* the store positions whose row the run has changed
Enriched == {i \in 1..Len(e_store0) : store[i] # e_store0[i]}

(* C21: a run selects at most limit articles, each of them lacked its
   summary or its embedding when the run started, and only selected articles
   are processed: an article that had both is not selected and sees no
   collaborator call and no commit. *)
C21_SelectsOnlyLacking ==
    epc # "idle" =>
        /\ Len(selected) <= e_limit
        /\ Cardinality(Selected) = Len(selected)
        /\ Cardinality(Touched) <= e_limit
        /\ Touched \subseteq Selected
        /\ \A i \in Selected : Lacking(e_store0[i])
        /\ \A i \in 1..Len(e_store0) :
              ~Lacking(e_store0[i]) => i \notin Selected /\ EventsOf(i) = {}

\* three stored articles, the first one complete: a run with limit 1 took
\* the second only and committed it
C21_Witness ==
    /\ EnrichDone
    /\ e_limit = 1
    /\ Len(e_store0) = 3
    /\ ~Lacking(e_store0[1])
    /\ Lacking(e_store0[2])
    /\ Lacking(e_store0[3])
    /\ selected = <<2>>
    /\ Enriched = {2}
    /\ store[3] = e_store0[3]

(* C22: the value a run returns is the number of articles whose enrichment
   it committed: each of them gained a summary, an embedding or both, no
   other article changed; the value lies between 0 and limit; without a
   client it is 0 and the store is as it was. *)
C22_ReturnsCommittedCount ==
    /\ EnrichDone =>
          /\ processed_count = Cardinality(Enriched)
          /\ Enriched = {e_log[k].i : k \in {n \in 1..Len(e_log) :
                                                e_log[n].ev = "committed"}}
          /\ \A i \in Enriched :
                \/ SummaryAbsent(e_store0[i]) /\ ~SummaryAbsent(store[i])
                \/ EmbeddingAbsent(e_store0[i]) /\ ~EmbeddingAbsent(store[i])
          /\ processed_count >= 0
          /\ processed_count <= e_limit
          /\ ~client => processed_count = 0 /\ store = e_store0
    /\ (g_req.pc = "g_done" /\ g_req.status = 200) =>
          /\ g_req.summaries_generated >= 0
          /\ g_req.summaries_generated <= g_req.limit

\* three selected articles: two were committed, one failed, the run
\* returns 2
C22_Witness ==
    /\ EnrichDone
    /\ e_limit = 3
    /\ Len(selected) = 3
    /\ processed_count = 2
    /\ Cardinality(Enriched) = 2
    /\ \E k \in 1..Len(e_log) : e_log[k].ev \in OtherFailureEvents

(* C29 as stated: a generate-summaries request with limit < 1 or limit > 100
   is answered 400 "Limit must be between 1 and 100" and starts no
   enrichment run. *)
C29_InvalidLimitIs400 ==
    (g_req.pc = "g_done" /\ (g_req.limit < 1 \/ g_req.limit > 100)) =>
        /\ g_req.status = 400
        /\ g_req.detail = "Limit must be between 1 and 100"
        /\ epc = "idle"
        /\ e_log = <<>>

(* ------------------------------------------------------------------ *)
(* Properties of the digest endpoints                                   *)
(* ------------------------------------------------------------------ *)
DigestDone(p) == dpc[p] = "d_done"
\* the positions of the events of a kind in the history
EventsOfKind(ev) == {k \in 1..Len(d_events) : d_events[k].ev = ev}

(* C23: whatever the interleaving of create and delete requests, two
   concurrent create requests for one date included, the digests table
   holds at most one row per digest_date. *)
C23_OneDigestPerDate ==
    \A i, j \in 1..Len(digests) :
        digests[i].digest_date = digests[j].digest_date => i = j

\* two create requests for one date both found no digest and both generated
\* one; the first commit stored its row, the second was refused
C23_Witness ==
    /\ DigestDone("A") /\ DigestDone("B")
    /\ d_req["A"].op = "create" /\ d_req["B"].op = "create"
    /\ d_req["A"].date = d_req["B"].date
    /\ d_req["A"].calls = 1 /\ d_req["B"].calls = 1
    /\ d_req["A"].outcome = "created"
    /\ d_req["B"].outcome = "integrity"
    /\ Len(digests) = 1

\* what a create request that met a digest of its date answers and does
ReturnsExisting(req) ==
    /\ req.status = 200
    /\ req.outcome = "exists"
    /\ req.digest = req.found.content
    /\ req.article_count = req.found.article_count
    /\ req.calls = 0
\* rows are never rewritten, and a date gets a new digest only after the
\* one it had was deleted
RegeneratedOnlyAfterDelete ==
    /\ \A p \in DigestRequests : \A i \in 1..Len(digests) :
          (d_req[p].found.has /\ digests[i].id = d_req[p].found.id) =>
              Entry(digests[i]) = d_req[p].found
    /\ \A k1, k2 \in EventsOfKind("created") :
          (k1 < k2 /\ d_events[k1].digest_date = d_events[k2].digest_date) =>
              \E k \in EventsOfKind("deleted") :
                  k1 < k /\ k < k2 /\ d_events[k].id = d_events[k1].id

(* C24 as stated: a create request for a date that has a digest returns the
   stored content, calls no text generation and leaves the row as it is; a
   date gets a new digest only after its digest was deleted. *)
C24_ExistingDigestReturned ==
    /\ \A p \in DigestRequests :
          (DigestDone(p) /\ d_req[p].op = "create" /\ d_req[p].had_entry)
          => ReturnsExisting(d_req[p])
    /\ RegeneratedOnlyAfterDelete

(* C24, amended: the same for a create request whose query for the digest
   of the date answered; when that query raises the request is answered 500
   and, as before, calls no text generation and changes no row. *)
C24_ExistingDigestReturnedIfFound ==
    /\ \A p \in DigestRequests :
          (DigestDone(p) /\ d_req[p].op = "create" /\ d_req[p].had_entry) =>
              \/ d_req[p].found.has /\ ReturnsExisting(d_req[p])
              \/ /\ ~d_req[p].found.has
                 /\ d_req[p].status = 500
                 /\ d_req[p].calls = 0
    /\ \A p \in DigestRequests :
          (d_req[p].op = "create" /\ d_req[p].found.has) => d_req[p].calls = 0
    /\ RegeneratedOnlyAfterDelete

\* a digest was created, deleted and created again for the same date, and a
\* later create request got the second one back
C24_Witness ==
    /\ Len(d_events) = 3
    /\ d_events[1].ev = "created"
    /\ d_events[2].ev = "deleted"
    /\ d_events[3].ev = "created"
    /\ d_events[1].digest_date = d_events[3].digest_date
    /\ DigestDone("A")
    /\ d_req["A"].op = "create"
    /\ d_req["A"].outcome = "exists"
    /\ d_req["A"].found.id = 2
    /\ d_req["A"].calls = 0

(* ------------------------------------------------------------------ *)
(* Properties of cosine_similarity                                      *)
(* ------------------------------------------------------------------ *)
CosineReturned == cos_call.pc = "returned"
Missing(vec) == ~vec.has \/ vec.v = <<>>
ZeroMagnitude(vec) == vec.has /\ \A i \in 1..Len(vec.v) : vec.v[i] = 0
\* the sum of the squares of the elements
SquaredLength(v) == Dot(v, v)
Negation(v) == [i \in 1..Len(v) |-> 0 - v[i]]
\* the arguments for which the cosine is defined
Comparable ==
    /\ ~Missing(cos_call.vec1) /\ ~Missing(cos_call.vec2)
    /\ Len(cos_call.vec1.v) = Len(cos_call.vec2.v)
    /\ ~ZeroMagnitude(cos_call.vec1) /\ ~ZeroMagnitude(cos_call.vec2)

(* C25: the call returns 0.0 whenever a vector is absent or empty, a vector
   has zero magnitude, or the two vectors differ in length. *)
C25_DegenerateIsZero ==
    (CosineReturned /\ ~Comparable) => cos_call.score = 0

\* a query vector of two dimensions against a stored one of three
C25_Witness ==
    /\ CosineReturned
    /\ cos_call.vec1 = Vec(<<3, 4>>)
    /\ cos_call.vec2 = Vec(<<1, 0, 0>>)
    /\ cos_call.score = 0

(* C26: for two non-zero vectors of one length the call returns
   (cosine + 1) / 2, which lies in [0, 1]: 1.0 for a vector against itself,
   0.5 for orthogonal vectors, 0.0 for a vector against its negation. Scores
   are in hundredths; the square of (2 * score - 1) times the squared
   lengths is compared with the square of the dot product. *)
C26_ScaledCosine ==
    (CosineReturned /\ Comparable) =>
        LET v1 == cos_call.vec1.v
            v2 == cos_call.vec2.v
            c == 2 * cos_call.score - 100
        IN /\ cos_call.score >= 0
           /\ cos_call.score <= 100
           /\ c * c * SquaredLength(v1) * SquaredLength(v2)
                 = 10000 * Dot(v1, v2) * Dot(v1, v2)
           /\ (c >= 0) = (Dot(v1, v2) >= 0)
           /\ v1 = v2 => cos_call.score = 100
           /\ Dot(v1, v2) = 0 => cos_call.score = 50
           /\ v2 = Negation(v1) => cos_call.score = 0

\* a vector against its negation
C26_Witness ==
    /\ CosineReturned
    /\ cos_call.vec1 = Vec(<<3, 4>>)
    /\ cos_call.vec2 = Vec(<<0 - 3, 0 - 4>>)
    /\ cos_call.score = 0

\* the score of the row cannot be computed: its stored embedding has another
\* dimensionality than the query embedding, so np.dot raises
ScoreFails(row) ==
    Scorable(row) /\ Len(row.embedding.v) # Len(query_embedding)

(* C27 as stated: an article whose score computation fails is skipped: it is
   in no search result, whatever min_similarity, while the other articles
   that qualify are returned. *)
C27_FailedScoreSkipped ==
    (SearchDone /\ s_outcome = "ok") =>
        /\ \A k \in 1..Len(s_result) : ~ScoreFails(s_result[k].article)
        /\ s_limit >= Len(store) =>
              \A i \in Qualifying :
                  ~ScoreFails(store[i]) =>
                      \E k \in 1..Len(s_result) : s_result[k].article = store[i]

(* ------------------------------------------------------------------ *)
(* Properties of the content of a candidate                             *)
(* ------------------------------------------------------------------ *)
\* the full content body of an entry, empty when it has none
ContentBody(e) ==
    IF e.content.has /\ e.content.v # <<>> THEN e.content.v[1] ELSE <<>>
\* the first non-empty field among content body, summary and description
BestField(e) ==
    IF ContentBody(e) # <<>> THEN ContentBody(e)
    ELSE IF e.summary.has /\ e.summary.v # <<>> THEN e.summary.v
    ELSE IF e.description.has /\ e.description.v # <<>> THEN e.description.v
    ELSE <<>>
\* the content a candidate gets from that field
BestContentOf ==
    [e \in EntryPool |-> truncate_content(clean_html(BestField(e)))]

(* C28 as stated: the content of every candidate is derived from the best
   available field of its entry: the content body when it is not empty,
   otherwise the summary, otherwise the description. *)
C28_BestFieldUsed ==
    SingleDone =>
        /\ Len(psf_out) = Len(Kept)
        /\ \A k \in 1..Len(psf_out) :
              psf_out[k].content = BestContentOf[Kept[k]]

(* ------------------------------------------------------------------ *)
(* Progress of repeated enrichment runs                                 *)
(* ------------------------------------------------------------------ *)
\* the article at store position i has its summary and its embedding
Complete(i) ==
    /\ i <= Len(store)
    /\ ~SummaryAbsent(store[i])
    /\ ~EmbeddingAbsent(store[i])
\* the collaborators succeed for the article at position i whenever called
Enrichable(i) == i <= Len(store) /\ ~AlwaysFails(store[i])

(* C30 as stated: under repeated runs, every stored article for which the
   collaborators succeed whenever called eventually has its summary and its
   embedding, even when other stored articles fail on every attempt. *)
C30_EnrichableEventuallyComplete ==
    \A i \in 1..(MaxEnrichRows + 1) : Enrichable(i) ~> Complete(i)

====
